---- MODULE Spec2Model ----
(***************************************************************************)
(* xlang_vm: the tree-walking evaluator (evaluator.rs) over the scope      *)
(* manager (scope.rs).  The recursion of evaluate_statement /              *)
(* evaluate_expression is unfolded into a machine with an explicit         *)
(* continuation stack: ctl is the call being entered or the value being    *)
(* returned, kont holds one frame per suspended Rust activation.           *)
(***************************************************************************)
EXTENDS Integers, Sequences, FiniteSets, TLC

VARIABLES
    nodes,          \* the scope graph as an arena: nodes[i] = Scope {value, children}
    current_scope,  \* ScopeManager.current_scope: handles (arena indices), innermost last
    errors,         \* EvaluatorState.errors
    module,         \* Module.stmts already handed to evaluate_statement, in source order
    vals,           \* the Vec<ConstValue> that evaluate() collects
    ctl,            \* the activation being entered / the value being returned
    kont,           \* the suspended activations, innermost last
    unpopped        \* history: the frame the latest TypeMismatch return left pushed

vars == <<nodes, current_scope, errors, module, vals, ctl, kont, unpopped>>

-----------------------------------------------------------------------------
(* Bounds of the model *)

\* number of top-level statements of the module
MaxStmts == 3
\* arena size explored by the scope-manager interface specification
MaxNodes == 3
\* active-scope stack depth explored by the scope-manager interface specification
MaxStack == 2
\* largest operand magnitude handed to the arithmetic table
MaxArith == 3

-----------------------------------------------------------------------------
(* Sequence helpers *)

Last(s) == s[Len(s)]

Front(s) == SubSeq(s, 1, Len(s) - 1)

Min(a, b) == IF a < b THEN a ELSE b

\* Option<T>
None == [some |-> FALSE]

Some(x) == [some |-> TRUE, v |-> x]

\* Option<Rf<Scope>> as an arena index: 0 is None
NoRf == 0

-----------------------------------------------------------------------------
(* const_value.rs (not among the sources): Type and ConstValue, from the   *)
(* data model of the specification and the constructors the evaluator uses *)

TEmpty == [t |-> "Empty"]

TCoercibleInteger == [t |-> "CoercibleInteger"]

TCoercibleFloat == [t |-> "CoercibleFloat"]

TInteger(width, signed) == [t |-> "Integer", width |-> width, signed |-> signed]

TFloat(width) == [t |-> "Float", width |-> width]

TFunction(parameters, return_parameters) ==
    [t |-> "Function", parameters |-> parameters, return_parameters |-> return_parameters]

TRecordInstance == [t |-> "RecordInstance"]

TTuple == [t |-> "Tuple"]

TSymbol(rf) == [t |-> "Symbol", rf |-> rf]

\* ConstValue::empty()
empty == [ty |-> TEmpty, kind |-> [k |-> "Empty"]]

\* ConstValue::cinteger(value)
cinteger(value) == [ty |-> TCoercibleInteger, kind |-> [k |-> "Integer", value |-> value]]

\* ConstValue::integer(value, width, signed)
integer(value, width, signed) ==
    [ty |-> TInteger(width, signed), kind |-> [k |-> "Integer", value |-> value]]

\* ConstValue::cfloat(value); a float is carried as the fraction num/den
cfloat(value) == [ty |-> TCoercibleFloat, kind |-> [k |-> "Float", value |-> value]]

\* ConstValue::float(value, width)
float(value, width) == [ty |-> TFloat(width), kind |-> [k |-> "Float", value |-> value]]

\* ConstValue::func(body, parameters, return_parameters, rf)
func(body, parameters, return_parameters, rf) ==
    [ty |-> TFunction(parameters, return_parameters),
     kind |-> [k |-> "Function", body |-> body, rf |-> rf]]

\* ConstValue::record_instance(members); members is the ordered name -> value map
record_instance(members) ==
    [ty |-> TRecordInstance, kind |-> [k |-> "RecordInstance", members |-> members]]

\* ConstValue::tuple(values)
tuple(values) == [ty |-> TTuple, kind |-> [k |-> "Tuple", items |-> values]]

\* ConstValue::default_for(ty)
default_for(ty) ==
    CASE ty.t = "Integer" -> integer(0, ty.width, ty.signed)
      [] ty.t = "Float" -> float([num |-> 0, den |-> 1], ty.width)
      [] ty.t = "CoercibleInteger" -> cinteger(0)
      [] ty.t = "CoercibleFloat" -> cfloat([num |-> 0, den |-> 1])
      [] OTHER -> empty

\* Type's equality, used by `arg.ty != ty`: "exactly equal"
TypeEq(a, b) == a = b

\* ConstValueKind::as_integer
as_integer(kind) == kind.value

\* ConstValueKind::as_float
as_float(kind) == kind.value

-----------------------------------------------------------------------------
(* LinkedHashMap<String, V>: a sequence of [name, val] entries in          *)
(* insertion order; inserting an existing key replaces the entry and moves *)
(* it to the back                                                          *)

RECURSIVE MapWithout(_, _)
MapWithout(m, name) ==
    IF m = <<>> THEN <<>>
    ELSE IF m[1].name = name THEN MapWithout(Tail(m), name)
         ELSE <<m[1]>> \o MapWithout(Tail(m), name)

MapInsert(m, name, val) == Append(MapWithout(m, name), [name |-> name, val |-> val])

MapHas(m, name) == \E i \in 1..Len(m) : m[i].name = name

MapGet(m, name) == m[CHOOSE i \in 1..Len(m) : m[i].name = name].val

MapSet(m, name, val) ==
    [i \in 1..Len(m) |-> IF m[i].name = name THEN [name |-> name, val |-> val] ELSE m[i]]


-----------------------------------------------------------------------------
(* scope.rs: ScopeValue, Scope, ScopeManager *)

SVConstValue(cv) == [sv |-> "ConstValue", cv |-> cv]

SVRecord(ident, members) == [sv |-> "Record", ident |-> ident, members |-> members]

SVModule == [sv |-> "Module"]

\* HashMap<String, Rf<Scope>>::new(): a function from the bound names to handles
NoChildren == <<>>

\* Scope::new(value)
Scope_new(value) == [value |-> value, children |-> NoChildren]

\* the root node the host hands to ScopeManager::new
Root == 1

\* ScopeManager::new(module): the stack holds the root
ScopeManager_new == <<Root>>

\* ScopeManager::push_scope
push_scope(cs, rf) == Append(cs, rf)

\* pop_scope removing the outermost entry, Vec::remove(0)
pop_scope_outermost(cs) == Tail(cs)

\* ScopeManager::pop_scope: Vec::remove(len - 1)
pop_scope(cs) == Front(cs)

\* find_symbol looking through the whole scope graph, a node off the stack included
find_symbol_graph(ns, cs, name) ==
    IF \E i \in 1..Len(ns) : name \in DOMAIN ns[i].children
    THEN ns[CHOOSE i \in 1..Len(ns) : name \in DOMAIN ns[i].children].children[name]
    ELSE NoRf

\* ScopeManager::find_symbol: innermost first, direct children only
RECURSIVE find_symbol(_, _, _)
find_symbol(ns, cs, name) ==
    IF cs = <<>> THEN NoRf
    ELSE IF name \in DOMAIN ns[Last(cs)].children
         THEN ns[Last(cs)].children[name]
         ELSE find_symbol(ns, Front(cs), name)

\* update_value inserting an unresolved name under the outermost active scope
update_value_outermost(ns, cs, name, value) ==
    LET sym == find_symbol(ns, cs, name) IN
    IF sym # NoRf
    THEN [nodes |-> [ns EXCEPT ![sym].value = value], old |-> Some(ns[sym].value)]
    ELSE [nodes |-> Append([ns EXCEPT ![cs[1]].children = (name :> (Len(ns) + 1)) @@ @],
                           Scope_new(value)),
          old |-> None]

\* ScopeManager::update_value: the new arena and the Option<ScopeValue> returned
update_value(ns, cs, name, value) ==
    LET sym == find_symbol(ns, cs, name) IN
    IF sym # NoRf
    THEN [nodes |-> [ns EXCEPT ![sym].value = value], old |-> Some(ns[sym].value)]
    ELSE IF cs # <<>>
         THEN [nodes |-> Append([ns EXCEPT ![Last(cs)].children =
                                     (name :> (Len(ns) + 1)) @@ @],
                                Scope_new(value)),
               old |-> None]
         ELSE [nodes |-> ns, old |-> None]

\* ScopeManager::insert_value: the new arena and the handle returned
insert_value(ns, cs, name, value) ==
    [nodes |-> Append([ns EXCEPT ![Last(cs)].children = (name :> (Len(ns) + 1)) @@ @],
                      Scope_new(value)),
     rf |-> Len(ns) + 1]

-----------------------------------------------------------------------------
(* xlang_core::ast as the evaluator consumes it.  pos is the index of a    *)
(* token in its statement; get_range is the span of an expression.         *)

\* Expression::Integer(val, _, span)
AstInteger(val, pos) == [k |-> "Integer", val |-> val, pos |-> pos]

\* Expression::Float(val, _, span); the literal num/den
AstFloat(num, den, pos) == [k |-> "Float", val |-> [num |-> num, den |-> den], pos |-> pos]

\* Expression::Ident(SpannedToken(span, Token::Ident(id)))
AstIdent(id, pos) == [k |-> "Ident", id |-> id, pos |-> pos]

\* Expression::BinaryExpression {left, right, op_token}
AstBinary(left, op, right) ==
    [k |-> "BinaryExpression", op |-> op, left |-> left, right |-> right]

\* Expression::FunctionCall {expr, args}; close is the token of the closing parenthesis
AstCall(expr, args, close) ==
    [k |-> "FunctionCall", expr |-> expr, args |-> args, close |-> close]

\* Expression::Record {parameters}
AstRecord(parameters, pos) == [k |-> "Record", parameters |-> parameters, pos |-> pos]

\* Expression::Function {parameters, return_parameters, body}; body is an Option
AstFunction(parameters, return_parameters, body, pos) ==
    [k |-> "Function", parameters |-> parameters,
     return_parameters |-> return_parameters, body |-> body, pos |-> pos]

\* a Decleration without initializer has expr: None
AstNoExpr == [k |-> "None"]

\* ast::Type::Integer {width, signed}
AstTyInteger(width, signed) == [t |-> "Integer", width |-> width, signed |-> signed]

\* ast::Type::Float {width}
AstTyFloat(width) == [t |-> "Float", width |-> width]

\* ast::Type::Ident(id)
AstTyIdent(id) == [t |-> "Ident", id |-> id]

\* one entry of a ParamaterList: name and ty are Options
AstParam(name, ty) == [name |-> Some(name), ty |-> Some(ty)]

\* Statement::Decleration {ident, ty, expr}
AstDecleration(ident, ty, expr) ==
    [k |-> "Decleration", ident |-> ident, ty |-> ty, expr |-> expr]

\* Statement::Expression(expr)
AstExpression(expr) == [k |-> "Expression", expr |-> expr]

\* Statement::List(list)
AstList(items) == [k |-> "List", items |-> items]

\* AstNode::get_range of an expression
RECURSIVE get_range(_)
get_range(e) ==
    CASE e.k = "BinaryExpression" -> <<get_range(e.left)[1], get_range(e.right)[2]>>
      [] e.k = "FunctionCall" -> <<get_range(e.expr)[1], e.close>>
      [] OTHER -> <<e.pos, e.pos>>

i32 == AstTyInteger(32, TRUE)

-----------------------------------------------------------------------------
(* The statements a module is drawn from *)

\* Point := {x: i32, y: i32}
PointDecl ==
    AstDecleration("Point", None,
        AstRecord(<<AstParam("x", i32), AstParam("y", i32)>>, 3))

\* mk := (a: i32, b: i32) -> (x: i32, y: i32) { x = a y = b }
MkDecl ==
    AstDecleration("mk", None,
        AstFunction(<<AstParam("a", i32), AstParam("b", i32)>>,
                    <<AstParam("x", i32), AstParam("y", i32)>>,
                    Some(AstList(<<
                        AstExpression(AstBinary(AstIdent("x", 20), "Equals", AstIdent("a", 22))),
                        AstExpression(AstBinary(AstIdent("y", 23), "Equals", AstIdent("b", 25)))>>)),
                    3))

\* p := mk(1, 2)
PDecl ==
    AstDecleration("p", None,
        AstCall(AstIdent("mk", 3), <<AstInteger(1, 5), AstInteger(2, 7)>>, 8))

\* a: i32 = 5
ADecl == AstDecleration("a", Some(i32), AstInteger(5, 5))

\* a + 2
APlus2 == AstExpression(AstBinary(AstIdent("a", 1), "Plus", AstInteger(2, 3)))

\* 2 + a
TwoPlusA == AstExpression(AstBinary(AstInteger(2, 1), "Plus", AstIdent("a", 3)))

\* g := () -> (r: i32) { r = c }
GDecl ==
    AstDecleration("g", None,
        AstFunction(<<>>, <<AstParam("r", i32)>>,
                    Some(AstList(<<
                        AstExpression(AstBinary(AstIdent("r", 11), "Equals", AstIdent("c", 13)))>>)),
                    3))

\* f := () -> (q: i32) { c = 5 g() }
FDecl ==
    AstDecleration("f", None,
        AstFunction(<<>>, <<AstParam("q", i32)>>,
                    Some(AstList(<<
                        AstExpression(AstBinary(AstIdent("c", 11), "Equals", AstInteger(5, 13))),
                        AstExpression(AstCall(AstIdent("g", 14), <<>>, 16))>>)),
                    3))

\* f()
FCall == AstExpression(AstCall(AstIdent("f", 1), <<>>, 3))

\* h := (v: T) -> (w: i32) { w = mk(v, v) }
HDecl ==
    AstDecleration("h", None,
        AstFunction(<<AstParam("v", AstTyIdent("T"))>>, <<AstParam("w", i32)>>,
                    Some(AstList(<<
                        AstExpression(AstBinary(AstIdent("w", 14), "Equals",
                            AstCall(AstIdent("mk", 16),
                                    <<AstIdent("v", 18), AstIdent("v", 20)>>, 21)))>>)),
                    3))

\* h(u)
HCall == AstExpression(AstCall(AstIdent("h", 1), <<AstIdent("u", 3)>>, 4))

\* h(mk(1.5, 2))
HOfBad ==
    AstExpression(AstCall(AstIdent("h", 1),
        <<AstCall(AstIdent("mk", 3), <<AstFloat(3, 2, 5), AstInteger(2, 7)>>, 8)>>, 9))

\* 1 / 0
DivZero == AstExpression(AstBinary(AstInteger(1, 1), "Divide", AstInteger(0, 3)))

\* mk(1.5, 2).x
BadCallDot ==
    AstExpression(AstBinary(
        AstCall(AstIdent("mk", 1), <<AstFloat(3, 2, 3), AstInteger(2, 5)>>, 6),
        "Dot", AstIdent("x", 8)))

\* u(1): the callee is an unresolved identifier
NonFnCall == AstExpression(AstCall(AstIdent("u", 1), <<AstInteger(1, 3)>>, 4))

\* (1 + 1.5).x = 2: no operator for the type pair, no member-access shape
BadShape ==
    AstExpression(AstBinary(
        AstBinary(AstBinary(AstInteger(1, 2), "Plus", AstFloat(3, 2, 4)), "Dot", AstIdent("x", 7)),
        "Equals", AstInteger(2, 9)))

\* z: i32 (a declaration without initializer)
ZDecl == AstDecleration("z", Some(i32), AstNoExpr)

\* k := () -> () (a function literal without body)
KDecl == AstDecleration("k", None, AstFunction(<<>>, <<>>, None, 3))

Stmts ==
    {PointDecl, MkDecl, PDecl, ADecl, APlus2, TwoPlusA, GDecl, FDecl, FCall,
     HDecl, HCall, HOfBad, DivZero, BadCallDot, NonFnCall, BadShape, ZDecl, KDecl}

-----------------------------------------------------------------------------
(* The statements of the modules that build, read and mutate record        *)
(* instances and call a function more than once                            *)

\* r()
RCall(pos) == AstCall(AstIdent("r", pos), <<>>, pos + 2)

\* a.b
Dot(a, b) == AstBinary(a, "Dot", b)

\* a = b
Equals(a, b) == AstBinary(a, "Equals", b)

\* r := () -> (x: i32, y: i32) { }
RDecl ==
    AstDecleration("r", None,
        AstFunction(<<>>, <<AstParam("x", i32), AstParam("y", i32)>>,
                    Some(AstList(<<>>)), 3))

\* t := () -> (o: i32) { p := r()  p.x = 10  o = p.x }
TSet ==
    AstDecleration("t", None,
        AstFunction(<<>>, <<AstParam("o", i32)>>,
            Some(AstList(<<
                AstDecleration("p", None, RCall(13)),
                AstExpression(Equals(Dot(AstIdent("p", 16), AstIdent("x", 18)),
                                     AstInteger(10, 20))),
                AstExpression(Equals(AstIdent("o", 21),
                                     Dot(AstIdent("p", 23), AstIdent("x", 25))))>>)),
            3))

\* t := () -> (o: i32, n: i32) { p := r()  o = (p.z = 10)  n = (p.x.y = 7) }
TMissing ==
    AstDecleration("t", None,
        AstFunction(<<>>, <<AstParam("o", i32), AstParam("n", i32)>>,
            Some(AstList(<<
                AstDecleration("p", None, RCall(17)),
                AstExpression(Equals(AstIdent("o", 20),
                    Equals(Dot(AstIdent("p", 23), AstIdent("z", 25)), AstInteger(10, 27)))),
                AstExpression(Equals(AstIdent("n", 29),
                    Equals(Dot(Dot(AstIdent("p", 32), AstIdent("x", 34)), AstIdent("y", 36)),
                           AstInteger(7, 38))))>>)),
            3))

\* t := () -> (o: i32) { p := r()  p.x = r()  p.x.y = 7  o = p.x.y }
TNested ==
    AstDecleration("t", None,
        AstFunction(<<>>, <<AstParam("o", i32)>>,
            Some(AstList(<<
                AstDecleration("p", None, RCall(13)),
                AstExpression(Equals(Dot(AstIdent("p", 16), AstIdent("x", 18)), RCall(20))),
                AstExpression(Equals(
                    Dot(Dot(AstIdent("p", 23), AstIdent("x", 25)), AstIdent("y", 27)),
                    AstInteger(7, 29))),
                AstExpression(Equals(AstIdent("o", 30),
                    Dot(Dot(AstIdent("p", 32), AstIdent("x", 34)), AstIdent("y", 36))))>>)),
            3))

\* t := () -> (o: i32) { p := r()  p.x = r()  p.x.y = r()  o = (p.x.y.x = 7) }
TDeep ==
    AstDecleration("t", None,
        AstFunction(<<>>, <<AstParam("o", i32)>>,
            Some(AstList(<<
                AstDecleration("p", None, RCall(13)),
                AstExpression(Equals(Dot(AstIdent("p", 16), AstIdent("x", 18)), RCall(20))),
                AstExpression(Equals(
                    Dot(Dot(AstIdent("p", 23), AstIdent("x", 25)), AstIdent("y", 27)),
                    RCall(29))),
                AstExpression(Equals(AstIdent("o", 32),
                    Equals(Dot(Dot(Dot(AstIdent("p", 35), AstIdent("x", 37)),
                                   AstIdent("y", 39)), AstIdent("x", 41)),
                           AstInteger(7, 43))))>>)),
            3))

\* t()
TCall == AstExpression(AstCall(AstIdent("t", 1), <<>>, 3))

\* 1 + 2
OnePlusTwo == AstExpression(AstBinary(AstInteger(1, 1), "Plus", AstInteger(2, 3)))

\* Point (the name of a record declaration read as a value)
PointRead == AstExpression(AstIdent("Point", 1))

\* w := () -> (d: i32, e: i32) { e = m  m = 1 }
WDecl ==
    AstDecleration("w", None,
        AstFunction(<<>>, <<AstParam("d", i32), AstParam("e", i32)>>,
            Some(AstList(<<
                AstExpression(Equals(AstIdent("e", 17), AstIdent("m", 19))),
                AstExpression(Equals(AstIdent("m", 20), AstInteger(1, 22)))>>)),
            3))

\* w()
WCall == AstExpression(AstCall(AstIdent("w", 1), <<>>, 3))

\* rec := (a: T, b: i32) -> () { rec(a, a) }
RecDecl ==
    AstDecleration("rec", None,
        AstFunction(<<AstParam("a", AstTyIdent("T")), AstParam("b", i32)>>, <<>>,
            Some(AstList(<<
                AstExpression(AstCall(AstIdent("rec", 16),
                    <<AstIdent("a", 18), AstIdent("a", 20)>>, 21))>>)),
            3))

\* rec(u)
RecCall == AstExpression(AstCall(AstIdent("rec", 1), <<AstIdent("u", 3)>>, 4))

\* u(c = 5): the callee is an unresolved identifier, the argument an assignment
NonFnSide ==
    AstExpression(AstCall(AstIdent("u", 1),
        <<Equals(AstIdent("c", 3), AstInteger(5, 5))>>, 6))

RecordStmts ==
    {RDecl, TSet, TMissing, TNested, TDeep, TCall, OnePlusTwo, PointDecl, PointRead,
     WDecl, WCall, RecDecl, RecCall, NonFnSide, BadShape, ZDecl, KDecl}

-----------------------------------------------------------------------------
(* The statements of the modules that call a function with fewer, more and *)
(* mistyped arguments, and read members of what a call returns             *)

\* n := 0
NDecl == AstDecleration("n", None, AstInteger(0, 3))

\* s := (a: i32, b: i32) -> (x: i32) { n = n + 1  c = a }
SDecl ==
    AstDecleration("s", None,
        AstFunction(<<AstParam("a", i32), AstParam("b", i32)>>, <<AstParam("x", i32)>>,
            Some(AstList(<<
                AstExpression(Equals(AstIdent("n", 19),
                    AstBinary(AstIdent("n", 21), "Plus", AstInteger(1, 23)))),
                AstExpression(Equals(AstIdent("c", 24), AstIdent("a", 26)))>>)),
            3))

\* s().x
SX(pos) == Dot(AstCall(AstIdent("s", pos), <<>>, pos + 2), AstIdent("x", pos + 4))

\* s().x as a statement: the member is found
SNone == AstExpression(SX(1))

\* s().z: the record s returns has no member z
SMiss == AstExpression(Dot(AstCall(AstIdent("s", 1), <<>>, 3), AstIdent("z", 5)))

\* s(s().x): one argument for two parameters
SOne == AstExpression(AstCall(AstIdent("s", 1), <<SX(3)>>, 8))

\* s(s().x, s().x, 1): three arguments for two parameters
SSurplus ==
    AstExpression(AstCall(AstIdent("s", 1), <<SX(3), SX(9), AstInteger(1, 15)>>, 16))

\* s(s().x + 1, 1): the first argument is an i32, the second a literal
SBad ==
    AstExpression(AstCall(AstIdent("s", 1),
        <<AstBinary(SX(3), "Plus", AstInteger(1, 9)), AstInteger(1, 11)>>, 12))

\* s(1).x: the member read of a call that stops on its first argument
SBadDot ==
    AstExpression(Dot(AstCall(AstIdent("s", 1), <<AstInteger(1, 3)>>, 4), AstIdent("x", 6)))

CallStmts ==
    {NDecl, SDecl, SNone, SMiss, SOne, SSurplus, SBad, SBadDot,
     PointDecl, NonFnCall, BadShape, ZDecl, KDecl}

-----------------------------------------------------------------------------
(* evaluator.rs: the helpers of the evaluator *)

\* Evaluator::evaluate_type
evaluate_type(ns, cs, ty) ==
    CASE ty.t = "Integer" -> TInteger(ty.width, ty.signed)
      [] ty.t = "Float" -> TFloat(ty.width)
      [] ty.t = "Ident" ->
            LET sym == find_symbol(ns, cs, ty.id) IN
            IF sym # NoRf THEN TSymbol(sym) ELSE TEmpty

\* Evaluator::evaluate_params: entries without a name or a type are skipped
RECURSIVE evaluate_params_from(_, _, _, _)
evaluate_params_from(ns, cs, params, acc) ==
    IF params = <<>> THEN acc
    ELSE LET f == params[1] IN
         evaluate_params_from(ns, cs, Tail(params),
            IF f.name.some /\ f.ty.some
            THEN MapInsert(acc, f.name.v, evaluate_type(ns, cs, f.ty.v))
            ELSE acc)

evaluate_params(ns, cs, params) == evaluate_params_from(ns, cs, params, <<>>)

\* the value an identifier or a return-parameter reads from its node (lines 155-160, 205-210)
value_of(ns, sym) ==
    IF ns[sym].value.sv = "ConstValue" THEN ns[sym].value.cv ELSE empty

(* Integer arithmetic on the raw values *)

RECURSIVE Pow(_, _)
Pow(b, e) == IF e <= 0 THEN 1 ELSE b * Pow(b, e - 1)

Abs(x) == IF x < 0 THEN -x ELSE x

\* Rust's `/` on integers truncates toward zero
TruncDiv(a, b) ==
    IF (a < 0) = (b < 0) THEN Abs(a) \div Abs(b) ELSE -(Abs(a) \div Abs(b))

ArithOps == {"Plus", "Minus", "Multiply", "Divide", "Exponent"}

\* `/` with a zero divisor panics ("attempt to divide by zero")
IntPanics(op, l, r) == op = "Divide" /\ r = 0

IntOp(op, l, r) ==
    CASE op = "Plus" -> l + r
      [] op = "Minus" -> l - r
      [] op = "Multiply" -> l * r
      [] op = "Divide" -> TruncDiv(l, r)
      [] op = "Exponent" -> Pow(l, r)

(* Float arithmetic on fractions; den = 0 stands for the infinities and NaN *)

RECURSIVE GCD(_, _)
GCD(a, b) == IF b = 0 THEN a ELSE GCD(b, a % b)

Frac(n, d) ==
    IF d = 0 THEN [num |-> (IF n > 0 THEN 1 ELSE IF n < 0 THEN -1 ELSE 0), den |-> 0]
    ELSE LET g == GCD(Abs(n), Abs(d))
             s == IF d < 0 THEN -1 ELSE 1
         IN [num |-> s * (n \div g), den |-> s * (d \div g)]

\* powf is modelled for whole, non-negative exponents only
FloatOp(op, l, r) ==
    CASE op = "Plus" -> Frac(l.num * r.den + r.num * l.den, l.den * r.den)
      [] op = "Minus" -> Frac(l.num * r.den - r.num * l.den, l.den * r.den)
      [] op = "Multiply" -> Frac(l.num * r.num, l.den * r.den)
      [] op = "Divide" -> Frac(l.num * r.den, l.den * r.num)
      [] op = "Exponent" -> Frac(Pow(l.num, r.num), Pow(l.den, r.num))

\* the arithmetic table without re-tagging: a sized operand is treated as coercible
arithmetic_coercible(op, left, right) ==
    IF op \notin ArithOps THEN empty
    ELSE IF {left.ty.t, right.ty.t} \subseteq {"CoercibleInteger", "Integer"}
              /\ "CoercibleInteger" \in {left.ty.t, right.ty.t}
    THEN cinteger(IntOp(op, as_integer(left.kind), as_integer(right.kind)))
    ELSE IF {left.ty.t, right.ty.t} \subseteq {"CoercibleFloat", "Float"}
              /\ "CoercibleFloat" \in {left.ty.t, right.ty.t}
    THEN cfloat(FloatOp(op, as_float(left.kind), as_float(right.kind)))
    ELSE empty

\* the arithmetic table of evaluate_binary_expression (lines 283-366)
arithmetic(op, left, right) ==
    LET lt == left.ty.t
        rt == right.ty.t
    IN
    CASE lt = "CoercibleInteger" /\ rt = "CoercibleInteger" ->
            IF op \in ArithOps
            THEN cinteger(IntOp(op, as_integer(left.kind), as_integer(right.kind)))
            ELSE empty
      [] lt = "Integer" /\ rt = "CoercibleInteger" ->
            IF op \in ArithOps
            THEN integer(IntOp(op, as_integer(left.kind), as_integer(right.kind)),
                         left.ty.width, left.ty.signed)
            ELSE empty
      [] lt = "CoercibleInteger" /\ rt = "Integer" ->
            IF op \in ArithOps
            THEN integer(IntOp(op, as_integer(left.kind), as_integer(right.kind)),
                         right.ty.width, right.ty.signed)
            ELSE empty
      [] lt = "CoercibleFloat" /\ rt = "CoercibleFloat" ->
            IF op \in ArithOps
            THEN cfloat(FloatOp(op, as_float(left.kind), as_float(right.kind)))
            ELSE empty
      [] lt = "Float" /\ rt = "CoercibleFloat" ->
            IF op \in ArithOps
            THEN float(FloatOp(op, as_float(left.kind), as_float(right.kind)), left.ty.width)
            ELSE empty
      [] lt = "CoercibleFloat" /\ rt = "Float" ->
            IF op \in ArithOps
            THEN float(FloatOp(op, as_float(left.kind), as_float(right.kind)), right.ty.width)
            ELSE empty
      [] OTHER -> empty

\* whether the arm taken panics instead of producing a value
arithmetic_panics(op, left, right) ==
    /\ {left.ty.t, right.ty.t} \subseteq {"CoercibleInteger", "Integer"}
    /\ "CoercibleInteger" \in {left.ty.t, right.ty.t}
    /\ IntPanics(op, as_integer(left.kind), as_integer(right.kind))

\* the argument loop checking every type before it binds anything: on a mismatch
\* no parameter is bound
RECURSIVE bind_args_checked(_, _, _, _, _)
bind_args_checked(ns, cs, args, ptypes, i) ==
    LET bad == {j \in i..Min(Len(args), Len(ptypes)) : ~TypeEq(args[j].ty, ptypes[j].val)} IN
    IF bad # {} THEN [nodes |-> ns, mismatch |-> CHOOSE j \in bad : \A l \in bad : j <= l]
    ELSE IF i > Min(Len(args), Len(ptypes)) THEN [nodes |-> ns, mismatch |-> 0]
    ELSE bind_args_checked(update_value(ns, cs, ptypes[i].name, SVConstValue(args[i])).nodes,
                           cs, args, ptypes, i + 1)

\* the argument loop of a call (lines 183-194): bind position by position, stop at
\* the first argument whose type is not the parameter's.  mismatch is the index of
\* that argument, 0 when the loop ran to its end.
RECURSIVE bind_args(_, _, _, _, _)
bind_args(ns, cs, args, ptypes, i) ==
    IF i > Min(Len(args), Len(ptypes)) THEN [nodes |-> ns, mismatch |-> 0]
    ELSE IF ~TypeEq(args[i].ty, ptypes[i].val) THEN [nodes |-> ns, mismatch |-> i]
    ELSE bind_args(update_value(ns, cs, ptypes[i].name, SVConstValue(args[i])).nodes,
                   cs, args, ptypes, i + 1)

\* the return values of a call leaving out the names that do not resolve
RECURSIVE return_values_resolved(_, _, _, _)
return_values_resolved(ns, cs, rptypes, acc) ==
    IF rptypes = <<>> THEN acc
    ELSE LET name == rptypes[1].name
             sym == find_symbol(ns, cs, name)
         IN return_values_resolved(ns, cs, Tail(rptypes),
                IF sym # NoRf THEN MapInsert(acc, name, value_of(ns, sym)) ELSE acc)

\* the return values of a call (lines 200-216)
RECURSIVE return_values_from(_, _, _, _)
return_values_from(ns, cs, rptypes, acc) ==
    IF rptypes = <<>> THEN acc
    ELSE LET name == rptypes[1].name
             sym == find_symbol(ns, cs, name)
             vl == IF sym # NoRf THEN value_of(ns, sym) ELSE default_for(rptypes[1].val)
         IN return_values_from(ns, cs, Tail(rptypes), MapInsert(acc, name, vl))

return_values(ns, cs, rptypes) == return_values_from(ns, cs, rptypes, <<>>)

\* a value that passes the pattern ConstValue {ty: RecordInstance, kind: RecordInstance}
is_record_instance(cv) == cv.ty.t = "RecordInstance" /\ cv.kind.k = "RecordInstance"

\* fom resolving no path at all: only the direct shape ident.ident is left
fom_unresolved(ns, cs, left, right, member, value) == [ok |-> FALSE, nodes |-> ns]

\* ScopeManager::fom with the callback `*cv = value` nested once by
\* follow_member_access_mut (lines 225-236): left.right is the record, member its field
fom(ns, cs, left, right, member, value) ==
    IF left.k = "Ident" /\ right.k = "Ident"
    THEN LET sym == find_symbol(ns, cs, left.id) IN
         IF sym = NoRf THEN [ok |-> FALSE, nodes |-> ns]
         ELSE IF ~(ns[sym].value.sv = "ConstValue" /\ is_record_instance(ns[sym].value.cv))
         THEN [ok |-> FALSE, nodes |-> ns]
         ELSE LET members == ns[sym].value.cv.kind.members IN
              IF MapHas(members, right.id)
                 /\ is_record_instance(MapGet(members, right.id))
                 /\ MapHas(MapGet(members, right.id).kind.members, member)
              THEN [ok |-> TRUE,
                    nodes |-> [ns EXCEPT ![sym].value.cv.kind.members =
                        MapSet(members, right.id,
                            record_instance(
                                MapSet(MapGet(members, right.id).kind.members, member, value)))]]
              ELSE [ok |-> TRUE, nodes |-> ns]
    ELSE [ok |-> FALSE, nodes |-> ns]

\* follow_member_access_mut handing the callback a copy of the member
follow_member_access_mut_copy(ns, cs, left, right, value) ==
    IF left.k = "Ident" /\ right.k = "Ident"
    THEN LET sym == find_symbol(ns, cs, left.id) IN
         [ok |-> /\ sym # NoRf
                 /\ ns[sym].value.sv = "ConstValue"
                 /\ is_record_instance(ns[sym].value.cv),
          nodes |-> ns]
    ELSE IF left.k = "BinaryExpression" /\ left.op = "Dot" /\ right.k = "Ident"
    THEN [ok |-> fom(ns, cs, left.left, left.right, right.id, value).ok, nodes |-> ns]
    ELSE [ok |-> FALSE, nodes |-> ns]

\* ScopeManager::follow_member_access_mut with the callback `*cv = value` (lines 256-258)
follow_member_access_mut(ns, cs, left, right, value) ==
    IF left.k = "Ident" /\ right.k = "Ident"
    THEN LET sym == find_symbol(ns, cs, left.id) IN
         IF sym = NoRf THEN [ok |-> FALSE, nodes |-> ns]
         ELSE IF ~(ns[sym].value.sv = "ConstValue" /\ is_record_instance(ns[sym].value.cv))
         THEN [ok |-> FALSE, nodes |-> ns]
         ELSE LET members == ns[sym].value.cv.kind.members IN
              IF MapHas(members, right.id)
              THEN [ok |-> TRUE,
                    nodes |-> [ns EXCEPT ![sym].value.cv.kind.members =
                                   MapSet(members, right.id, value)]]
              ELSE [ok |-> TRUE, nodes |-> ns]
    ELSE IF left.k = "BinaryExpression" /\ left.op = "Dot" /\ right.k = "Ident"
    THEN fom(ns, cs, left.left, left.right, right.id, value)
    ELSE [ok |-> FALSE, nodes |-> ns]

-----------------------------------------------------------------------------
(* The evaluator as a machine.                                             *)
(*   ctl.mode = "idle"   evaluate() is between two statements              *)
(*              "stmt"   evaluate_statement(ctl.s) is entered              *)
(*              "expr"   evaluate_expression(ctl.e) is entered             *)
(*              "invoke" callee and arguments of the call ctl.e are        *)
(*                       evaluated, the match of line 174 is next          *)
(*              "ret"    ctl.val is returned by the activation of ctl.of   *)
(*              "panic"  the thread panicked; the pass is over             *)

Init ==
    /\ nodes = <<Scope_new(SVModule)>>
    /\ current_scope = ScopeManager_new
    /\ errors = <<>>
    /\ module = <<>>
    /\ vals = <<>>
    /\ ctl = [mode |-> "idle"]
    /\ kont = <<>>
    /\ unpopped = None

Enter_stmt(s) == [mode |-> "stmt", s |-> s]

Enter_expr(e) == [mode |-> "expr", e |-> e]

Return(v, of) == [mode |-> "ret", val |-> v, of |-> of]

Top == Last(kont)

Returning(k) == ctl.mode = "ret" /\ kont # <<>> /\ Top.k = k

\* EvaluationError {kind: TypeMismatch(found, expected), range}
TypeMismatch(found, expected, range) ==
    [kind |-> "TypeMismatch", found |-> found, expected |-> expected, range |-> range]

\* Evaluator::add_error
add_error(errs, error) == Append(errs, error)

\* evaluate(): the next statement of the module goes to evaluate_statement
Evaluate ==
    /\ ctl.mode = "idle"
    /\ Len(module) < MaxStmts
    /\ \E stmt \in Stmts :
        /\ module' = Append(module, stmt)
        /\ ctl' = Enter_stmt(stmt)
    /\ kont' = <<[k |-> "evaluate"]>>
    /\ UNCHANGED <<nodes, current_scope, errors, vals, unpopped>>

\* evaluate(): the value of the statement is collected
Evaluate_Collect ==
    /\ Returning("evaluate")
    /\ vals' = Append(vals, ctl.val)
    /\ kont' = Front(kont)
    /\ ctl' = [mode |-> "idle"]
    /\ UNCHANGED <<nodes, current_scope, errors, module, unpopped>>

is_record_decl(s) == s.k = "Decleration" /\ s.expr.k = "Record"

is_function_decl(s) == s.k = "Decleration" /\ s.expr.k = "Function" /\ s.expr.body.some

is_plain_decl(s) ==
    s.k = "Decleration" /\ s.expr.k # "None" /\ ~is_record_decl(s) /\ ~is_function_decl(s)

\* evaluate_statement, record declaration (lines 64-77)
Statement_Record ==
    /\ ctl.mode = "stmt" /\ is_record_decl(ctl.s)
    /\ LET members == evaluate_params(nodes, current_scope, ctl.s.expr.parameters) IN
       nodes' = update_value(nodes, current_scope, ctl.s.ident,
                             SVRecord(ctl.s.ident, members)).nodes
    /\ ctl' = Return(empty, ctl.s)
    /\ UNCHANGED <<current_scope, errors, module, vals, kont, unpopped>>

\* the function declaration capturing the scope it is declared in
Statement_Function_CallSite ==
    /\ ctl.mode = "stmt" /\ is_function_decl(ctl.s)
    /\ LET id == ctl.s.ident
           parameters == evaluate_params(nodes, current_scope, ctl.s.expr.parameters)
           return_parameters ==
               evaluate_params(nodes, current_scope, ctl.s.expr.return_parameters)
       IN nodes' = update_value(nodes, current_scope, id,
                       SVConstValue(func(ctl.s.expr.body.v, parameters,
                                         return_parameters, Last(current_scope)))).nodes
    /\ ctl' = Return(empty, ctl.s)
    /\ UNCHANGED <<current_scope, errors, module, vals, kont, unpopped>>

\* evaluate_statement, function declaration (lines 78-105)
Statement_Function ==
    /\ ctl.mode = "stmt" /\ is_function_decl(ctl.s)
    /\ LET id == ctl.s.ident
           parameters == evaluate_params(nodes, current_scope, ctl.s.expr.parameters)
           return_parameters ==
               evaluate_params(nodes, current_scope, ctl.s.expr.return_parameters)
           reserved == update_value(nodes, current_scope, id, SVConstValue(empty)).nodes
           sym == find_symbol(reserved, current_scope, id)
       IN nodes' = update_value(reserved, current_scope, id,
                       SVConstValue(func(ctl.s.expr.body.v, parameters,
                                         return_parameters, sym))).nodes
    /\ ctl' = Return(empty, ctl.s)
    /\ UNCHANGED <<current_scope, errors, module, vals, kont, unpopped>>

\* evaluate_statement, plain declaration (lines 106-111): the initializer is evaluated;
\* the type annotation is not read
Statement_Decleration ==
    /\ ctl.mode = "stmt" /\ is_plain_decl(ctl.s)
    /\ kont' = Append(kont, [k |-> "Decleration", s |-> ctl.s])
    /\ ctl' = Enter_expr(ctl.s.expr)
    /\ UNCHANGED <<nodes, current_scope, errors, module, vals, unpopped>>

\* evaluate_statement, plain declaration (lines 112-115, 134): the name is bound
Statement_Decleration_Bind ==
    /\ Returning("Decleration")
    /\ nodes' = update_value(nodes, current_scope, Top.s.ident, SVConstValue(ctl.val)).nodes
    /\ kont' = Front(kont)
    /\ ctl' = Return(empty, Top.s)
    /\ UNCHANGED <<current_scope, errors, module, vals, unpopped>>

\* evaluate_statement, expression statement (line 116)
Statement_Expression ==
    /\ ctl.mode = "stmt" /\ ctl.s.k = "Expression"
    /\ ctl' = Enter_expr(ctl.s.expr)
    /\ UNCHANGED <<nodes, current_scope, errors, module, vals, kont, unpopped>>

\* evaluate_statement, list (lines 117-131): a list of one item is that item
Statement_List ==
    /\ ctl.mode = "stmt" /\ ctl.s.k = "List"
    /\ IF Len(ctl.s.items) = 1
       THEN /\ ctl' = Enter_stmt(ctl.s.items[1])
            /\ kont' = kont
       ELSE IF ctl.s.items = <<>>
       THEN /\ ctl' = Return(tuple(<<>>), ctl.s)
            /\ kont' = kont
       ELSE /\ ctl' = Enter_stmt(ctl.s.items[1])
            /\ kont' = Append(kont, [k |-> "List", s |-> ctl.s,
                                     rest |-> Tail(ctl.s.items), values |-> <<>>])
    /\ UNCHANGED <<nodes, current_scope, errors, module, vals, unpopped>>

\* evaluate_statement, list (lines 125-129): the next item, or the tuple of all values
Statement_List_Next ==
    /\ Returning("List")
    /\ LET values == Append(Top.values, ctl.val) IN
       IF Top.rest = <<>>
       THEN /\ ctl' = Return(tuple(values), Top.s)
            /\ kont' = Front(kont)
       ELSE /\ ctl' = Enter_stmt(Top.rest[1])
            /\ kont' = [kont EXCEPT ![Len(kont)] =
                            [Top EXCEPT !.rest = Tail(Top.rest), !.values = values]]
    /\ UNCHANGED <<nodes, current_scope, errors, module, vals, unpopped>>

\* evaluate_statement, any other statement (lines 132-134)
Statement_Other ==
    /\ ctl.mode = "stmt"
    /\ ctl.s.k \notin {"Expression", "List"}
    /\ ~is_record_decl(ctl.s) /\ ~is_function_decl(ctl.s) /\ ~is_plain_decl(ctl.s)
    /\ ctl' = Return(empty, ctl.s)
    /\ UNCHANGED <<nodes, current_scope, errors, module, vals, kont, unpopped>>

-----------------------------------------------------------------------------
(* evaluate_expression *)

\* integer and float literals (lines 150-151)
Expression_Literal ==
    /\ ctl.mode = "expr" /\ ctl.e.k \in {"Integer", "Float"}
    /\ ctl' = Return(IF ctl.e.k = "Integer" THEN cinteger(ctl.e.val) ELSE cfloat(ctl.e.val),
                     ctl.e)
    /\ UNCHANGED <<nodes, current_scope, errors, module, vals, kont, unpopped>>

\* the identifier read binding a name that does not resolve to empty
Expression_Ident_Reserve ==
    /\ ctl.mode = "expr" /\ ctl.e.k = "Ident"
    /\ LET sym == find_symbol(nodes, current_scope, ctl.e.id) IN
       /\ ctl' = Return(IF sym # NoRf THEN value_of(nodes, sym) ELSE empty, ctl.e)
       /\ nodes' = IF sym # NoRf THEN nodes
                   ELSE update_value(nodes, current_scope, ctl.e.id, SVConstValue(empty)).nodes
    /\ UNCHANGED <<current_scope, errors, module, vals, kont, unpopped>>

\* identifier (lines 152-164)
Expression_Ident ==
    /\ ctl.mode = "expr" /\ ctl.e.k = "Ident"
    /\ LET sym == find_symbol(nodes, current_scope, ctl.e.id) IN
       ctl' = Return(IF sym # NoRf THEN value_of(nodes, sym) ELSE empty, ctl.e)
    /\ UNCHANGED <<nodes, current_scope, errors, module, vals, kont, unpopped>>

\* the left shapes evaluate_binary_expression tells apart (lines 238-264)
is_assign(e) == e.k = "BinaryExpression" /\ e.op = "Equals" /\ e.left.k = "Ident"

is_member_assign(e) ==
    /\ e.k = "BinaryExpression" /\ e.op = "Equals"
    /\ e.left.k = "BinaryExpression" /\ e.left.op = "Dot"

is_member_read(e) == e.k = "BinaryExpression" /\ e.op = "Dot"

is_generic_binary(e) ==
    e.k = "BinaryExpression" /\ ~is_assign(e) /\ ~is_member_assign(e) /\ ~is_member_read(e)

\* `ident = expr` (lines 239-240): the right side is evaluated
Binary_Assign ==
    /\ ctl.mode = "expr" /\ is_assign(ctl.e)
    /\ kont' = Append(kont, [k |-> "Assign", e |-> ctl.e])
    /\ ctl' = Enter_expr(ctl.e.right)
    /\ UNCHANGED <<nodes, current_scope, errors, module, vals, unpopped>>

\* `ident = expr` (lines 241-244): the name is bound, the value returned
Binary_Assign_Bind ==
    /\ Returning("Assign")
    /\ nodes' = update_value(nodes, current_scope, Top.e.left.id, SVConstValue(ctl.val)).nodes
    /\ kont' = Front(kont)
    /\ ctl' = Return(ctl.val, Top.e)
    /\ UNCHANGED <<current_scope, errors, module, vals, unpopped>>

\* `a.b = expr` (lines 246-254): the right side is evaluated
Binary_MemberAssign ==
    /\ ctl.mode = "expr" /\ is_member_assign(ctl.e)
    /\ kont' = Append(kont, [k |-> "MemberAssign", e |-> ctl.e])
    /\ ctl' = Enter_expr(ctl.e.right)
    /\ UNCHANGED <<nodes, current_scope, errors, module, vals, unpopped>>

\* `a.b = expr` (lines 255-262): the member is mutated through the scope manager
Binary_MemberAssign_Apply ==
    /\ Returning("MemberAssign")
    /\ LET r == follow_member_access_mut(nodes, current_scope,
                    Top.e.left.left, Top.e.left.right, ctl.val) IN
       /\ nodes' = r.nodes
       /\ ctl' = Return(IF r.ok THEN ctl.val ELSE empty, Top.e)
    /\ kont' = Front(kont)
    /\ UNCHANGED <<current_scope, errors, module, vals, unpopped>>

\* `a.b` (lines 264-265): the left side is evaluated
Binary_Dot ==
    /\ ctl.mode = "expr" /\ is_member_read(ctl.e)
    /\ kont' = Append(kont, [k |-> "Dot", e |-> ctl.e])
    /\ ctl' = Enter_expr(ctl.e.left)
    /\ UNCHANGED <<nodes, current_scope, errors, module, vals, unpopped>>

\* the member read returning empty at once when the left side is no record instance
\* or has no such member
Binary_Dot_Member_Once ==
    /\ Returning("Dot")
    /\ ctl' = Return(IF /\ ctl.val.kind.k = "RecordInstance"
                        /\ Top.e.right.k = "Ident"
                        /\ MapHas(ctl.val.kind.members, Top.e.right.id)
                     THEN MapGet(ctl.val.kind.members, Top.e.right.id)
                     ELSE empty,
                     Top.e)
    /\ kont' = Front(kont)
    /\ UNCHANGED <<nodes, current_scope, errors, module, vals, unpopped>>

\* `a.b` (lines 266-280): the member of a record instance is returned; in every other
\* case control falls out of the match and the left side is evaluated again
Binary_Dot_Member ==
    /\ Returning("Dot")
    /\ IF /\ ctl.val.kind.k = "RecordInstance"
          /\ Top.e.right.k = "Ident"
          /\ MapHas(ctl.val.kind.members, Top.e.right.id)
       THEN /\ ctl' = Return(MapGet(ctl.val.kind.members, Top.e.right.id), Top.e)
            /\ kont' = Front(kont)
       ELSE /\ ctl' = Enter_expr(Top.e.left)
            /\ kont' = [kont EXCEPT ![Len(kont)] = [k |-> "Left", e |-> Top.e]]
    /\ UNCHANGED <<nodes, current_scope, errors, module, vals, unpopped>>

\* any other operator or left shape (line 280): the left side is evaluated
Binary_Left ==
    /\ ctl.mode = "expr" /\ is_generic_binary(ctl.e)
    /\ kont' = Append(kont, [k |-> "Left", e |-> ctl.e])
    /\ ctl' = Enter_expr(ctl.e.left)
    /\ UNCHANGED <<nodes, current_scope, errors, module, vals, unpopped>>

\* line 281: the right side is evaluated
Binary_Right ==
    /\ Returning("Left")
    /\ kont' = [kont EXCEPT ![Len(kont)] = [k |-> "Right", e |-> Top.e, left |-> ctl.val]]
    /\ ctl' = Enter_expr(Top.e.right)
    /\ UNCHANGED <<nodes, current_scope, errors, module, vals, unpopped>>

\* lines 283-366: the arithmetic table; an integer division by zero panics
Binary_Arithmetic ==
    /\ Returning("Right")
    /\ IF arithmetic_panics(Top.e.op, Top.left, ctl.val)
       THEN ctl' = [mode |-> "panic"]
       ELSE ctl' = Return(arithmetic(Top.e.op, Top.left, ctl.val), Top.e)
    /\ kont' = Front(kont)
    /\ UNCHANGED <<nodes, current_scope, errors, module, vals, unpopped>>

(* function call (lines 170-227) *)

\* line 171: the callee is evaluated
Call_Callee ==
    /\ ctl.mode = "expr" /\ ctl.e.k = "FunctionCall"
    /\ kont' = Append(kont, [k |-> "Callee", e |-> ctl.e])
    /\ ctl' = Enter_expr(ctl.e.expr)
    /\ UNCHANGED <<nodes, current_scope, errors, module, vals, unpopped>>

Invoke(e, fn, args) == [mode |-> "invoke", e |-> e, fn |-> fn, args |-> args]

\* the arguments evaluated only once the callee is known to be a function
Call_Args_FunctionOnly ==
    /\ Returning("Callee")
    /\ IF Top.e.args = <<>> \/ ~(ctl.val.ty.t = "Function" /\ ctl.val.kind.k = "Function")
       THEN /\ ctl' = Invoke(Top.e, ctl.val, <<>>)
            /\ kont' = Front(kont)
       ELSE /\ ctl' = Enter_expr(Top.e.args[1])
            /\ kont' = [kont EXCEPT ![Len(kont)] =
                            [k |-> "Args", e |-> Top.e, fn |-> ctl.val,
                             rest |-> Tail(Top.e.args), args |-> <<>>]]
    /\ UNCHANGED <<nodes, current_scope, errors, module, vals, unpopped>>

\* line 172, evaluate_args (lines 369-373): the arguments are evaluated left to right
Call_Args ==
    /\ Returning("Callee")
    /\ IF Top.e.args = <<>>
       THEN /\ ctl' = Invoke(Top.e, ctl.val, <<>>)
            /\ kont' = Front(kont)
       ELSE /\ ctl' = Enter_expr(Top.e.args[1])
            /\ kont' = [kont EXCEPT ![Len(kont)] =
                            [k |-> "Args", e |-> Top.e, fn |-> ctl.val,
                             rest |-> Tail(Top.e.args), args |-> <<>>]]
    /\ UNCHANGED <<nodes, current_scope, errors, module, vals, unpopped>>

\* evaluate_args: the next argument, or the call itself
Call_NextArg ==
    /\ Returning("Args")
    /\ LET args == Append(Top.args, ctl.val) IN
       IF Top.rest = <<>>
       THEN /\ ctl' = Invoke(Top.e, Top.fn, args)
            /\ kont' = Front(kont)
       ELSE /\ ctl' = Enter_expr(Top.rest[1])
            /\ kont' = [kont EXCEPT ![Len(kont)] =
                            [Top EXCEPT !.rest = Tail(Top.rest), !.args = args]]
    /\ UNCHANGED <<nodes, current_scope, errors, module, vals, unpopped>>

\* the pattern of lines 175-181
is_function(cv) == cv.ty.t = "Function" /\ cv.kind.k = "Function"

\* the call on a non-function recording a diagnostic (the TODO of line 224 done)
Call_NotFunction_Throws ==
    /\ ctl.mode = "invoke" /\ ~is_function(ctl.fn)
    /\ errors' = add_error(errors, TypeMismatch(ctl.fn.ty, TEmpty, get_range(ctl.e.expr)))
    /\ ctl' = Return(empty, ctl.e)
    /\ UNCHANGED <<nodes, current_scope, module, vals, kont, unpopped>>

\* lines 224-225: the callee is no function
Call_NotFunction ==
    /\ ctl.mode = "invoke" /\ ~is_function(ctl.fn)
    /\ ctl' = Return(empty, ctl.e)
    /\ UNCHANGED <<nodes, current_scope, errors, module, vals, kont, unpopped>>

\* the frame pushed (line 182) and the arguments bound (lines 183-194)
bound(fn, args) ==
    bind_args(nodes, push_scope(current_scope, fn.kind.rf), args, fn.ty.parameters, 1)

\* the TypeMismatch return popping the frame it pushed
Call_TypeMismatch_Popped ==
    /\ ctl.mode = "invoke" /\ is_function(ctl.fn)
    /\ LET b == bound(ctl.fn, ctl.args)
           i == b.mismatch
       IN /\ i # 0
          /\ nodes' = b.nodes
          /\ errors' = add_error(errors,
                TypeMismatch(ctl.args[i].ty, ctl.fn.ty.parameters[i].val,
                             get_range(ctl.e.args[i])))
    /\ current_scope' = pop_scope(push_scope(current_scope, ctl.fn.kind.rf))
    /\ ctl' = Return(empty, ctl.e)
    /\ UNCHANGED <<module, vals, kont, unpopped>>

\* lines 182-190: an argument has not the type of its parameter
Call_TypeMismatch ==
    /\ ctl.mode = "invoke" /\ is_function(ctl.fn)
    /\ LET b == bound(ctl.fn, ctl.args)
           i == b.mismatch
       IN /\ i # 0
          /\ nodes' = b.nodes
          /\ errors' = add_error(errors,
                TypeMismatch(ctl.args[i].ty, ctl.fn.ty.parameters[i].val,
                             get_range(ctl.e.args[i])))
    /\ current_scope' = push_scope(current_scope, ctl.fn.kind.rf)
    /\ unpopped' = Some([rf |-> ctl.fn.kind.rf, pre |-> current_scope,
                         nested |-> \E j \in 1..Len(kont) : kont[j].k = "Body"])
    /\ ctl' = Return(empty, ctl.e)
    /\ UNCHANGED <<module, vals, kont>>

\* the call running its body in a frame of its own, a node made for this invocation
Call_Body_FreshFrame ==
    /\ ctl.mode = "invoke" /\ is_function(ctl.fn)
    /\ LET fresh == Len(nodes) + 1
           b == bind_args(Append(nodes, Scope_new(SVConstValue(empty))),
                          push_scope(current_scope, fresh), ctl.args, ctl.fn.ty.parameters, 1)
       IN /\ b.mismatch = 0
          /\ nodes' = b.nodes
          /\ current_scope' = push_scope(current_scope, fresh)
          /\ kont' = Append(kont, [k |-> "Body", e |-> ctl.e, rf |-> fresh,
                                   rptypes |-> ctl.fn.ty.return_parameters,
                                   pre |-> current_scope])
    /\ ctl' = Enter_stmt(ctl.fn.kind.body)
    /\ UNCHANGED <<errors, module, vals, unpopped>>

\* the call refusing an argument list that has not the length of the parameter list:
\* one diagnostic over the whole call, no frame, no body
Call_Body_Arity ==
    /\ ctl.mode = "invoke" /\ is_function(ctl.fn)
    /\ LET b == bound(ctl.fn, ctl.args) IN
       /\ b.mismatch = 0
       /\ IF Len(ctl.args) = Len(ctl.fn.ty.parameters)
          THEN /\ nodes' = b.nodes
               /\ current_scope' = push_scope(current_scope, ctl.fn.kind.rf)
               /\ kont' = Append(kont, [k |-> "Body", e |-> ctl.e, rf |-> ctl.fn.kind.rf,
                                        rptypes |-> ctl.fn.ty.return_parameters,
                                        pre |-> current_scope])
               /\ ctl' = Enter_stmt(ctl.fn.kind.body)
               /\ errors' = errors
          ELSE /\ errors' = add_error(errors,
                                TypeMismatch(TEmpty, ctl.fn.ty, get_range(ctl.e)))
               /\ ctl' = Return(empty, ctl.e)
               /\ UNCHANGED <<nodes, current_scope, kont>>
    /\ UNCHANGED <<module, vals, unpopped>>

\* lines 182-196: every argument is bound, the body is entered
Call_Body ==
    /\ ctl.mode = "invoke" /\ is_function(ctl.fn)
    /\ LET b == bound(ctl.fn, ctl.args) IN
          /\ b.mismatch = 0
          /\ nodes' = b.nodes
    /\ current_scope' = push_scope(current_scope, ctl.fn.kind.rf)
    /\ kont' = Append(kont, [k |-> "Body", e |-> ctl.e, rf |-> ctl.fn.kind.rf,
                             rptypes |-> ctl.fn.ty.return_parameters,
                             pre |-> current_scope])
    /\ ctl' = Enter_stmt(ctl.fn.kind.body)
    /\ UNCHANGED <<errors, module, vals, unpopped>>

\* lines 200-222: the return values are read, the frame is popped
Call_Return ==
    /\ Returning("Body")
    /\ ctl' = Return(record_instance(return_values(nodes, current_scope, Top.rptypes)), Top.e)
    /\ current_scope' = pop_scope(current_scope)
    /\ kont' = Front(kont)
    /\ UNCHANGED <<nodes, errors, module, vals, unpopped>>

\* any other expression (line 228)
Expression_Other ==
    /\ ctl.mode = "expr"
    /\ ctl.e.k \notin {"Integer", "Float", "Ident", "BinaryExpression", "FunctionCall"}
    /\ ctl' = Return(empty, ctl.e)
    /\ UNCHANGED <<nodes, current_scope, errors, module, vals, kont, unpopped>>

Next ==
    \/ Evaluate
    \/ Evaluate_Collect
    \/ Statement_Record
    \/ Statement_Function
    \/ Statement_Decleration
    \/ Statement_Decleration_Bind
    \/ Statement_Expression
    \/ Statement_List
    \/ Statement_List_Next
    \/ Statement_Other
    \/ Expression_Literal
    \/ Expression_Ident
    \/ Binary_Assign
    \/ Binary_Assign_Bind
    \/ Binary_MemberAssign
    \/ Binary_MemberAssign_Apply
    \/ Binary_Dot
    \/ Binary_Dot_Member
    \/ Binary_Left
    \/ Binary_Right
    \/ Binary_Arithmetic
    \/ Call_Callee
    \/ Call_Args
    \/ Call_NextArg
    \/ Call_NotFunction
    \/ Call_TypeMismatch
    \/ Call_Body
    \/ Call_Return
    \/ Expression_Other

Spec == Init /\ [][Next]_vars

\* evaluate() over a module of the record statements
Evaluate_Records ==
    /\ ctl.mode = "idle"
    /\ Len(module) < MaxStmts
    /\ \E stmt \in RecordStmts :
        /\ module' = Append(module, stmt)
        /\ ctl' = Enter_stmt(stmt)
    /\ kont' = <<[k |-> "evaluate"]>>
    /\ UNCHANGED <<nodes, current_scope, errors, vals, unpopped>>

NextRecords ==
    \/ Evaluate_Records
    \/ Evaluate_Collect
    \/ Statement_Record
    \/ Statement_Function
    \/ Statement_Decleration
    \/ Statement_Decleration_Bind
    \/ Statement_Expression
    \/ Statement_List
    \/ Statement_List_Next
    \/ Statement_Other
    \/ Expression_Literal
    \/ Expression_Ident
    \/ Binary_Assign
    \/ Binary_Assign_Bind
    \/ Binary_MemberAssign
    \/ Binary_MemberAssign_Apply
    \/ Binary_Dot
    \/ Binary_Dot_Member
    \/ Binary_Left
    \/ Binary_Right
    \/ Binary_Arithmetic
    \/ Call_Callee
    \/ Call_Args
    \/ Call_NextArg
    \/ Call_NotFunction
    \/ Call_TypeMismatch
    \/ Call_Body
    \/ Call_Return
    \/ Expression_Other

SpecRecords == Init /\ [][NextRecords]_vars

\* evaluate() over a module of the call statements
Evaluate_Calls ==
    /\ ctl.mode = "idle"
    /\ Len(module) < MaxStmts
    /\ \E stmt \in CallStmts :
        /\ module' = Append(module, stmt)
        /\ ctl' = Enter_stmt(stmt)
    /\ kont' = <<[k |-> "evaluate"]>>
    /\ UNCHANGED <<nodes, current_scope, errors, vals, unpopped>>

NextCalls ==
    \/ Evaluate_Calls
    \/ Evaluate_Collect
    \/ Statement_Record
    \/ Statement_Function
    \/ Statement_Decleration
    \/ Statement_Decleration_Bind
    \/ Statement_Expression
    \/ Statement_List
    \/ Statement_List_Next
    \/ Statement_Other
    \/ Expression_Literal
    \/ Expression_Ident
    \/ Binary_Assign
    \/ Binary_Assign_Bind
    \/ Binary_MemberAssign
    \/ Binary_MemberAssign_Apply
    \/ Binary_Dot
    \/ Binary_Dot_Member
    \/ Binary_Left
    \/ Binary_Right
    \/ Binary_Arithmetic
    \/ Call_Callee
    \/ Call_Args
    \/ Call_NextArg
    \/ Call_NotFunction
    \/ Call_TypeMismatch
    \/ Call_Body
    \/ Call_Return
    \/ Expression_Other

SpecCalls == Init /\ [][NextCalls]_vars

-----------------------------------------------------------------------------
(* The scope manager driven through its public interface: any caller may   *)
(* push a node it holds, pop, bind and resolve.  ctl records the call made *)
(* last and what it returned.                                              *)

ApiNames == {"a", "b"}

ApiValues == {SVConstValue(cinteger(1)), SVConstValue(cinteger(2))}

Api(op, name, value, result) ==
    [mode |-> "api", op |-> op, name |-> name, value |-> value, result |-> result]

\* ScopeManager::push_scope(rf), rf any node of the graph
Scope_push_scope ==
    /\ Len(current_scope) < MaxStack
    /\ \E rf \in 1..Len(nodes) :
        /\ current_scope' = push_scope(current_scope, rf)
        /\ ctl' = Api("push_scope", "", SVModule, rf)
    /\ UNCHANGED <<nodes, errors, module, vals, kont, unpopped>>

\* ScopeManager::pop_scope(); callers keep the root pushed
Scope_pop_scope ==
    /\ Len(current_scope) > 1
    /\ current_scope' = pop_scope(current_scope)
    /\ ctl' = Api("pop_scope", "", SVModule, Last(current_scope))
    /\ UNCHANGED <<nodes, errors, module, vals, kont, unpopped>>

\* ScopeManager::update_value(name, value)
Scope_update_value ==
    /\ \E name \in ApiNames, value \in ApiValues :
        LET r == update_value(nodes, current_scope, name, value) IN
        /\ Len(r.nodes) <= MaxNodes
        /\ nodes' = r.nodes
        /\ ctl' = Api("update_value", name, value, r.old)
    /\ UNCHANGED <<current_scope, errors, module, vals, kont, unpopped>>

\* ScopeManager::insert_value(name, value)
Scope_insert_value ==
    /\ Len(nodes) < MaxNodes
    /\ \E name \in ApiNames, value \in ApiValues :
        LET r == insert_value(nodes, current_scope, name, value) IN
        /\ nodes' = r.nodes
        /\ ctl' = Api("insert_value", name, value, r.rf)
    /\ UNCHANGED <<current_scope, errors, module, vals, kont, unpopped>>

\* ScopeManager::find_symbol(name)
Scope_find_symbol ==
    /\ \E name \in ApiNames :
        ctl' = Api("find_symbol", name, SVModule, find_symbol(nodes, current_scope, name))
    /\ UNCHANGED <<nodes, current_scope, errors, module, vals, kont, unpopped>>

ScopeNext ==
    \/ Scope_push_scope
    \/ Scope_pop_scope
    \/ Scope_update_value
    \/ Scope_insert_value
    \/ Scope_find_symbol

SpecScope == Init /\ [][ScopeNext]_vars

-----------------------------------------------------------------------------
(* The arithmetic table of evaluate_binary_expression applied to every     *)
(* operator and every pair of operand values of a bounded set: ctl holds   *)
(* the operator and the two evaluated operands of lines 280-281.           *)

\* token::Operator: the arithmetic operators and the two others the evaluator names
Operators == ArithOps \cup {"Equals", "Dot"}

\* whole floats n/1
Whole(n) == [num |-> n, den |-> 1]

ArithValues ==
    {cinteger(n) : n \in 0..MaxArith}
    \cup {integer(n, w, sg) : n \in 0..MaxArith, w \in {8, 32}, sg \in BOOLEAN}
    \cup {cfloat(Whole(n)) : n \in 0..MaxArith}
    \cup {float(Whole(n), w) : n \in 0..MaxArith, w \in {32, 64}}
    \cup {empty, record_instance(<<>>)}

InitArith ==
    /\ nodes = <<Scope_new(SVModule)>>
    /\ current_scope = ScopeManager_new
    /\ errors = <<>>
    /\ module = <<>>
    /\ vals = <<>>
    /\ ctl \in {[mode |-> "arith", op |-> op, left |-> left, right |-> right] :
                    op \in Operators, left \in ArithValues, right \in ArithValues}
    /\ kont = <<>>
    /\ unpopped = None

\* lines 283-366 on the operands of ctl
Arithmetic_Apply ==
    /\ ctl.mode = "arith"
    /\ IF arithmetic_panics(ctl.op, ctl.left, ctl.right)
       THEN ctl' = [mode |-> "panic"]
       ELSE ctl' = Return(arithmetic(ctl.op, ctl.left, ctl.right), ctl)
    /\ UNCHANGED <<nodes, current_scope, errors, module, vals, kont, unpopped>>

NextArith == Arithmetic_Apply

SpecArith == InitArith /\ [][NextArith]_vars

-----------------------------------------------------------------------------
(* Properties *)

\* evaluate() is between statements and has collected every statement handed out
Done == ctl.mode = "idle" /\ Len(vals) = Len(module)

\* evaluate_statement is entered for a statement of the module itself
AtTopLevelStatement == ctl.mode = "stmt" /\ Len(kont) = 1

\* the positions of kont that are executing function bodies, outermost first
BodyFrames == {j \in 1..Len(kont) : kont[j].k = "Body"}

Max(S) == CHOOSE x \in S : \A y \in S : y <= x

\* the nodes on the active-scope stack
Active == {current_scope[j] : j \in 1..Len(current_scope)}

Binds(rf, name) == name \in DOMAIN nodes[rf].children


\* C1: inside the body of a function g called from the body of a function f, an
\* identifier bound in f's frame only (in no other scope of the stack, so neither in
\* g's captured node nor in the root) evaluates to empty.
C1_FrameIsolation ==
    (/\ ctl.mode = "ret" /\ ctl.of.k = "Ident"
     /\ Cardinality(BodyFrames) >= 2)
    => LET gi == Max(BodyFrames)
           fi == Max(BodyFrames \ {gi})
           g == kont[gi].rf
           f == kont[fi].rf
       IN (/\ f # g
           /\ Binds(f, ctl.of.id)
           /\ \A rf \in Active \ {f} : ~Binds(rf, ctl.of.id))
          => ctl.val = empty

\* C2: a call that passed the argument type check returns with the active-scope
\* stack it was entered on (the stack before its frame was pushed).
C2_CallRestoresStack ==
    [][Returning("Body") => current_scope' = Top.pre]_vars

\* C3: the active-scope stack is never empty, its first entry is the root, and
\* pop_scope is only ever applied to a stack that holds more than the root.
C3_RootStaysPushed ==
    /\ Len(current_scope) >= 1
    /\ current_scope[1] = Root
    /\ (Returning("Body") => Len(current_scope) > 1)

\* a call is about to pop its frame off a stack that holds the root and that frame
C3_Witness == Returning("Body") /\ Len(current_scope) = 2 /\ Top.rf # Root

\* C4: a call with a mismatching argument is paired with exactly one TypeMismatch
\* entry and yields empty wherever its result is used; here the result of
\* mk(1.5, 2) is used as the left side of a member read.
C4_OneDiagnosticPerCall ==
    (module = <<MkDecl, BadCallDot>> /\ Done)
    => /\ vals[2] = empty
       /\ Len(errors) = 1
       /\ errors[1].range = <<3, 3>>

\* the call of ctl has an argument whose type is not its parameter's
Mismatching ==
    /\ ctl.mode = "invoke" /\ is_function(ctl.fn)
    /\ \E i \in 1..Min(Len(ctl.args), Len(ctl.fn.ty.parameters)) :
           ctl.args[i].ty # ctl.fn.ty.parameters[i].val

Silent == ctl'.mode = "ret" /\ ctl'.val = empty /\ errors' = errors

\* the operand types the arithmetic table has an arm for
HasArm(l, r) ==
    \/ l.t = "CoercibleInteger" /\ r.t \in {"CoercibleInteger", "Integer"}
    \/ l.t = "Integer" /\ r.t = "CoercibleInteger"
    \/ l.t = "CoercibleFloat" /\ r.t \in {"CoercibleFloat", "Float"}
    \/ l.t = "Float" /\ r.t = "CoercibleFloat"

\* the two shapes of a member path follow_member_access_mut resolves
RecognizedShape(left, right) ==
    /\ right.k = "Ident"
    /\ \/ left.k = "Ident"
       \/ left.k = "BinaryExpression" /\ left.op = "Dot"

\* C6: the error list only ever grows, by one TypeMismatch at a call whose argument
\* type differs from the parameter type; an unresolved identifier, a call on a
\* non-function, an unrecognized member-access shape and an operator or type pair
\* without arithmetic arm yield empty and leave the error list unchanged.
C6_ErrorsOnlyAtCallSites ==
    [][/\ errors' # errors =>
            /\ Mismatching
            /\ Len(errors') = Len(errors) + 1
            /\ SubSeq(errors', 1, Len(errors)) = errors
            /\ Last(errors').kind = "TypeMismatch"
       /\ (/\ ctl.mode = "expr" /\ ctl.e.k = "Ident"
           /\ \A rf \in Active : ~Binds(rf, ctl.e.id)) => Silent
       /\ (ctl.mode = "invoke" /\ ctl.fn.ty.t # "Function") => Silent
       /\ (/\ Returning("MemberAssign")
           /\ ~RecognizedShape(Top.e.left.left, Top.e.left.right)) => Silent
       /\ (/\ Returning("Right")
           /\ ~arithmetic_panics(Top.e.op, Top.left, ctl.val)
           /\ (Top.e.op \notin ArithOps \/ ~HasArm(Top.left.ty, ctl.val.ty))) => Silent
      ]_vars

\* after a TypeMismatch was recorded, a call on a non-function value returned empty
C6_Witness ==
    /\ Len(errors) = 1
    /\ ctl.mode = "ret" /\ ctl.of = NonFnCall.expr /\ ctl.val = empty

\* C7: the pass never aborts: no statement, an integer division by zero included,
\* stops evaluate() before it has collected one value per statement.
C7_NeverAborts == ctl.mode # "panic"

\* C8: Point, mk and p := mk(1, 2) from a fresh root bind p to
\* RecordInstance{x: Integer(32,true,1), y: Integer(32,true,2)} and record no error.
C8_RecordFromCall ==
    (module = <<PointDecl, MkDecl, PDecl>> /\ Done)
    => /\ find_symbol(nodes, current_scope, "p") # NoRf
       /\ nodes[find_symbol(nodes, current_scope, "p")].value =
            SVConstValue(record_instance(<<
                [name |-> "x", val |-> integer(1, 32, TRUE)],
                [name |-> "y", val |-> integer(2, 32, TRUE)]>>))
       /\ errors = <<>>

\* C9: after a: i32 = 5, both a + 2 and 2 + a are Integer{width: 32, signed: true} 7.
C9_SizedOperandWins ==
    (module = <<ADecl, APlus2, TwoPlusA>> /\ Done)
    => /\ vals[2] = integer(7, 32, TRUE)
       /\ vals[3] = integer(7, 32, TRUE)

\* C10: update_value(n, v) overwrites in place the node n resolves to through the
\* stack, innermost first, returns its previous value and creates no node; when n
\* does not resolve it inserts exactly one new child n under the innermost active
\* scope, touches no other scope and returns none.
C10_UpdateValue ==
    [][(ctl'.mode = "api" /\ ctl'.op = "update_value") =>
        LET n == ctl'.name
            holders == {j \in 1..Len(current_scope) : Binds(current_scope[j], n)}
            inner == Last(current_scope)
        IN /\ current_scope' = current_scope
           /\ IF holders # {}
              THEN LET sym == nodes[current_scope[Max(holders)]].children[n] IN
                   /\ nodes' = [nodes EXCEPT ![sym].value = ctl'.value]
                   /\ ctl'.result = Some(nodes[sym].value)
              ELSE /\ Len(nodes') = Len(nodes) + 1
                   /\ nodes'[Len(nodes')] = Scope_new(ctl'.value)
                   /\ \A j \in 1..Len(nodes) :
                        /\ nodes'[j].value = nodes[j].value
                        /\ j # inner => nodes'[j].children = nodes[j].children
                   /\ DOMAIN nodes'[inner].children = DOMAIN nodes[inner].children \cup {n}
                   /\ nodes'[inner].children[n] = Len(nodes')
                   /\ \A m \in DOMAIN nodes[inner].children :
                        nodes'[inner].children[m] = nodes[inner].children[m]
                   /\ ctl'.result = None
      ]_vars

\* a name that no active scope bound was inserted under a pushed scope, not the root
C10_Witness ==
    /\ ctl.mode = "api" /\ ctl.op = "update_value" /\ ctl.result = None
    /\ Len(current_scope) = 2 /\ Last(current_scope) # Root
    /\ Binds(Last(current_scope), ctl.name)
    /\ ~Binds(Root, ctl.name)

\* C11: find_symbol(name) returns the child `name` of the innermost scope of the
\* active-scope stack that has such a direct child, and nothing when no scope of the
\* stack has one; a node of the graph that is not a direct child of a stack entry is
\* never returned, whether it hangs under a popped scope or deeper in the graph.
C11_FindSymbol ==
    (ctl.mode = "api" /\ ctl.op = "find_symbol") =>
        LET holders == {j \in 1..Len(current_scope) : Binds(current_scope[j], ctl.name)} IN
        IF holders = {}
        THEN ctl.result = NoRf
        ELSE /\ ctl.result = nodes[current_scope[Max(holders)]].children[ctl.name]
             /\ \E rf \in Active : /\ Binds(rf, ctl.name)
                                    /\ nodes[rf].children[ctl.name] = ctl.result

\* find_symbol found nothing although a node off the stack binds the name
C11_Witness ==
    /\ ctl.mode = "api" /\ ctl.op = "find_symbol" /\ ctl.result = NoRf
    /\ \E i \in 1..Len(nodes) : i \notin Active /\ Binds(i, ctl.name)

\* the node a name resolves to through a stack cs over the graph ns, innermost first
ResolveIn(ns, cs, name) ==
    LET holders == {j \in 1..Len(cs) : name \in DOMAIN ns[cs[j]].children} IN
    IF holders = {} THEN NoRf ELSE ns[cs[Max(holders)]].children[name]

Resolve(name) == ResolveIn(nodes, current_scope, name)

\* the node holds a record instance
HoldsRecord(sym) ==
    /\ sym # NoRf
    /\ nodes[sym].value.sv = "ConstValue"
    /\ nodes[sym].value.cv.ty.t = "RecordInstance"

Members(sym) == nodes[sym].value.cv.kind.members

\* the member names of a record instance
Names(members) == {members[i].name : i \in 1..Len(members)}

\* the position of a member
At(members, name) == CHOOSE i \in 1..Len(members) : members[i].name = name

\* the function t bound in the root, and its local p
TNode == nodes[Root].children["t"]

PNode == nodes[TNode].children["p"]

\* C12: for p bound to a record instance with member x, `p.x = v` replaces member x
\* of the value held by p's own node (no node is created, no other node, member or
\* child changes, the stack is untouched) and evaluates to v; a read `p.x` returns
\* the member held by that node, so that p.x = 10 followed by o = p.x gives 10.
C12_MemberAssignInPlace ==
    [][/\ (/\ Returning("MemberAssign")
           /\ Top.e.left.left.k = "Ident" /\ Top.e.left.right.k = "Ident"
           /\ HoldsRecord(Resolve(Top.e.left.left.id))
           /\ Top.e.left.right.id \in Names(Members(Resolve(Top.e.left.left.id))))
          => LET sym == Resolve(Top.e.left.left.id)
                 x == Top.e.left.right.id
                 old == Members(sym)
                 new == nodes'[sym].value.cv.kind.members
             IN /\ Len(nodes') = Len(nodes)
                /\ \A i \in 1..Len(nodes) : i # sym => nodes'[i] = nodes[i]
                /\ nodes'[sym].children = nodes[sym].children
                /\ nodes'[sym].value.sv = "ConstValue"
                /\ nodes'[sym].value.cv.ty = nodes[sym].value.cv.ty
                /\ Len(new) = Len(old)
                /\ \A i \in 1..Len(old) :
                      /\ new[i].name = old[i].name
                      /\ new[i].val = IF old[i].name = x THEN ctl.val ELSE old[i].val
                /\ current_scope' = current_scope
                /\ ctl'.mode = "ret" /\ ctl'.val = ctl.val
       /\ (/\ Returning("Dot")
           /\ Top.e.left.k = "Ident" /\ Top.e.right.k = "Ident"
           /\ HoldsRecord(Resolve(Top.e.left.id))
           /\ Top.e.right.id \in Names(Members(Resolve(Top.e.left.id))))
          => LET members == Members(Resolve(Top.e.left.id)) IN
             /\ ctl'.mode = "ret"
             /\ ctl'.val = members[At(members, Top.e.right.id)].val
             /\ nodes' = nodes
       /\ (module' = <<RDecl, TSet, TCall>> /\ Done')
          => vals'[3] = record_instance(<<[name |-> "o", val |-> cinteger(10)]>>)
      ]_vars

\* t() has run p := r(), p.x = 10 and o = p.x: p's node holds the mutated record
C12_Witness ==
    /\ module = <<RDecl, TSet, TCall>> /\ Done
    /\ vals[3] = record_instance(<<[name |-> "o", val |-> cinteger(10)]>>)
    /\ nodes[PNode].value =
            SVConstValue(record_instance(<<
                [name |-> "x", val |-> cinteger(10)],
                [name |-> "y", val |-> integer(0, 32, TRUE)]>>))

\* C13: a function declaration leaves its name resolving to a node that holds a
\* Function value with the declared body whose captured-scope handle is that very
\* node; a name bound before keeps its node (none is created), an unbound name gets
\* one new child of the innermost scope.  An invocation pushes the captured node of
\* the function value, a node that already exists; the nodes created while the frame
\* is set up are the children that bind parameters, never the frame.
C13_CapturedScopeIsOwnNode ==
    [][/\ (ctl.mode = "stmt" /\ is_function_decl(ctl.s))
          => LET id == ctl.s.ident
                 before == Resolve(id)
                 after == ResolveIn(nodes', current_scope', id)
             IN /\ current_scope' = current_scope
                /\ after # NoRf
                /\ nodes'[after].value.sv = "ConstValue"
                /\ nodes'[after].value.cv.ty.t = "Function"
                /\ nodes'[after].value.cv.kind.rf = after
                /\ nodes'[after].value.cv.kind.body = ctl.s.expr.body.v
                /\ before # NoRf => (after = before /\ Len(nodes') = Len(nodes))
                /\ before = NoRf =>
                      /\ Len(nodes') = Len(nodes) + 1
                      /\ after = Len(nodes')
                      /\ nodes'[Last(current_scope)].children[id] = after
       /\ (ctl.mode = "invoke" /\ ctl.fn.ty.t = "Function")
          => LET rf == ctl.fn.kind.rf IN
             /\ rf \in 1..Len(nodes)
             /\ current_scope' = Append(current_scope, rf)
             /\ \A k \in (Len(nodes) + 1)..Len(nodes') :
                   \E i \in 1..Len(ctl.fn.ty.parameters) :
                       LET name == ctl.fn.ty.parameters[i].name IN
                       /\ name \in DOMAIN nodes'[rf].children
                       /\ nodes'[rf].children[name] = k
      ]_vars

\* f, declared twice, is invoked: its frame is the one node both declarations bound
C13_Witness ==
    /\ module = <<FDecl, FDecl, FCall>>
    /\ Returning("Body") /\ Top.e = FCall.expr
    /\ Top.rf = nodes[Root].children["f"]
    /\ Last(current_scope) = Top.rf
    /\ nodes[Top.rf].value.cv.kind.rf = Top.rf

\* the declared names of a parameter list, in declaration order
Declared(params) == [i \in 1..Len(params) |-> params[i].name.v]

\* C14: a call that passed the argument type check returns a RecordInstance whose
\* members are the declared return-parameter names in declaration order; each member
\* is the value its name resolves to through the active-scope stack once the body has
\* run (empty when the name is bound to something that is no value), or the default
\* of its declared type when the name resolves nowhere.
C14_ReturnRecord ==
    [][/\ (ctl.mode = "stmt" /\ is_function_decl(ctl.s))
          => LET fn == nodes'[ResolveIn(nodes', current_scope', ctl.s.ident)].value.cv
                 rp == fn.ty.return_parameters
                 decl == ctl.s.expr.return_parameters
             IN /\ Len(rp) = Len(decl)
                /\ \A i \in 1..Len(rp) :
                      /\ rp[i].name = Declared(decl)[i]
                      /\ decl[i].ty.v.t = "Integer" =>
                            rp[i].val = [t |-> "Integer", width |-> decl[i].ty.v.width,
                                         signed |-> decl[i].ty.v.signed]
       /\ Returning("Body")
          => LET rp == Top.rptypes
                 members == ctl'.val.kind.members
             IN /\ ctl'.mode = "ret"
                /\ ctl'.val.ty.t = "RecordInstance" /\ ctl'.val.kind.k = "RecordInstance"
                /\ Len(members) = Len(rp)
                /\ \A i \in 1..Len(rp) :
                      LET sym == Resolve(rp[i].name) IN
                      /\ members[i].name = rp[i].name
                      /\ members[i].val =
                            IF sym = NoRf THEN default_for(rp[i].val)
                            ELSE IF nodes[sym].value.sv = "ConstValue"
                                 THEN nodes[sym].value.cv
                                 ELSE empty
      ]_vars

\* f() returns q, which its body never binds, as the default of i32
C14_Witness ==
    /\ ctl.mode = "ret" /\ ctl.of = FCall.expr
    /\ ctl.val = record_instance(<<[name |-> "q", val |-> integer(0, 32, TRUE)]>>)
    /\ Resolve("q") = NoRf

\* the result type the operand type pair fixes for + - * / ^
ResultType(lt, rt) ==
    CASE lt.t = "CoercibleInteger" /\ rt.t = "CoercibleInteger" -> lt
      [] lt.t = "Integer" /\ rt.t = "CoercibleInteger" -> lt
      [] lt.t = "CoercibleInteger" /\ rt.t = "Integer" -> rt
      [] lt.t = "CoercibleFloat" /\ rt.t = "CoercibleFloat" -> lt
      [] lt.t = "Float" /\ rt.t = "CoercibleFloat" -> lt
      [] lt.t = "CoercibleFloat" /\ rt.t = "Float" -> rt
      [] OTHER -> [t |-> "Empty"]

\* C15: for + - * / ^ the type of an arithmetic result is fixed by the operand type
\* pair: CoercibleInteger for two CoercibleIntegers, Integer{w,s} for Integer{w,s}
\* with CoercibleInteger in either order, CoercibleFloat for two CoercibleFloats,
\* Float{w} for Float{w} with CoercibleFloat in either order; every other pair gives
\* empty, and so does any other operator.
C15_ResultType ==
    (ctl.mode = "ret" /\ ctl.of.mode = "arith") =>
        LET expected == IF ctl.of.op \in {"Plus", "Minus", "Multiply", "Divide", "Exponent"}
                        THEN ResultType(ctl.of.left.ty, ctl.of.right.ty)
                        ELSE [t |-> "Empty"]
        IN /\ ctl.val.ty = expected
           /\ expected.t = "Empty" => ctl.val = empty
           /\ expected.t \in {"CoercibleInteger", "Integer"} => ctl.val.kind.k = "Integer"
           /\ expected.t \in {"CoercibleFloat", "Float"} => ctl.val.kind.k = "Float"

\* a coercible integer raised to an unsigned 8-bit integer took the sized type
C15_Witness ==
    /\ ctl.mode = "ret" /\ ctl.of.mode = "arith"
    /\ ctl.of.op = "Exponent"
    /\ ctl.of.left = cinteger(2)
    /\ ctl.of.right = integer(3, 8, FALSE)
    /\ ctl.val = integer(8, 8, FALSE)

\* an expression built from literals, identifiers, arithmetic operators and member
\* reads only
RECURSIVE IsPure(_)
IsPure(e) ==
    \/ e.k \in {"Integer", "Float", "Ident"}
    \/ /\ e.k = "BinaryExpression"
       /\ e.op \in {"Plus", "Minus", "Multiply", "Divide", "Exponent", "Dot"}
       /\ IsPure(e.left) /\ IsPure(e.right)

\* the value of such an expression as a function of the scope graph and the stack
\* (evaluate_expression lines 150-164, evaluate_binary_expression lines 264-366)
RECURSIVE evaluate_pure(_, _, _)
evaluate_pure(ns, cs, e) ==
    CASE e.k = "Integer" -> cinteger(e.val)
      [] e.k = "Float" -> cfloat(e.val)
      [] e.k = "Ident" ->
            LET sym == ResolveIn(ns, cs, e.id) IN
            IF sym # NoRf /\ ns[sym].value.sv = "ConstValue" THEN ns[sym].value.cv ELSE empty
      [] e.k = "BinaryExpression" /\ e.op = "Dot" ->
            LET left == evaluate_pure(ns, cs, e.left) IN
            IF /\ left.kind.k = "RecordInstance"
               /\ e.right.k = "Ident"
               /\ e.right.id \in Names(left.kind.members)
            THEN left.kind.members[At(left.kind.members, e.right.id)].val
            ELSE arithmetic(e.op, left, evaluate_pure(ns, cs, e.right))
      [] e.k = "BinaryExpression" /\ e.op # "Dot" ->
            arithmetic(e.op, evaluate_pure(ns, cs, e.left), evaluate_pure(ns, cs, e.right))

\* a step of the evaluation of such an expression
PureStep ==
    \/ ctl.mode = "expr" /\ IsPure(ctl.e)
    \/ /\ ctl.mode = "ret" /\ kont # <<>>
       /\ Top.k \in {"Dot", "Left", "Right"}
       /\ IsPure(Top.e)

\* C16: the evaluation of an expression built only from literals, identifiers,
\* arithmetic operators and member reads changes neither the scope graph nor the
\* active-scope stack nor the error list, and its value is a function of the
\* expression and that state, so that two evaluations in a row give the same value
\* (1 + 2 gives CoercibleInteger 3 each time); an identifier that is unbound or bound
\* to a record declaration gives empty.
C16_PureExpression ==
    [][/\ PureStep =>
            /\ nodes' = nodes
            /\ current_scope' = current_scope
            /\ errors' = errors
       /\ (ctl'.mode = "ret" /\ IsPure(ctl'.of))
          => ctl'.val = evaluate_pure(nodes', current_scope', ctl'.of)
       /\ (/\ ctl.mode = "expr" /\ ctl.e.k = "Ident"
           /\ \/ Resolve(ctl.e.id) = NoRf
              \/ nodes[Resolve(ctl.e.id)].value.sv = "Record")
          => (ctl'.mode = "ret" /\ ctl'.val = empty)
       /\ \A i \in 1..Len(vals') :
             /\ module'[i] = OnePlusTwo => vals'[i] = cinteger(3)
             /\ (/\ i > 1
                 /\ module'[i].k = "Expression" /\ IsPure(module'[i].expr)
                 /\ module'[i - 1] = module'[i])
                => vals'[i] = vals'[i - 1]
      ]_vars

\* 1 + 2 was evaluated twice and the unbound name Point read, on an untouched root
C16_Witness ==
    /\ module = <<OnePlusTwo, OnePlusTwo, PointRead>> /\ Done
    /\ vals = <<cinteger(3), cinteger(3), empty>>
    /\ nodes = <<Scope_new(SVModule)>>
    /\ current_scope = <<Root>>
    /\ errors = <<>>

\* the path of a member assignment: a.b with a bound to a record instance
PathOne(path) ==
    /\ path.left.k = "Ident" /\ path.right.k = "Ident"
    /\ HoldsRecord(Resolve(path.left.id))

\* the path of a member assignment: a.b.c with a bound to a record instance
PathTwo(path) ==
    /\ path.left.k = "BinaryExpression" /\ path.left.op = "Dot"
    /\ path.left.left.k = "Ident" /\ path.left.right.k = "Ident"
    /\ path.right.k = "Ident"
    /\ HoldsRecord(Resolve(path.left.left.id))

\* member `name` of the record instance held by node sym, when there is one
HasMember(sym, name) == name \in Names(Members(sym))

Member(sym, name) == Members(sym)[At(Members(sym), name)].val

\* the member a path addresses is missing: a has no b, or a.b is missing, is no record
\* instance or has no member c
Unaddressed(path) ==
    \/ /\ PathOne(path)
       /\ ~HasMember(Resolve(path.left.id), path.right.id)
    \/ /\ PathTwo(path)
       /\ LET a == Resolve(path.left.left.id)
              b == path.left.right.id
          IN \/ ~HasMember(a, b)
             \/ Member(a, b).kind.k # "RecordInstance"
             \/ path.right.id \notin Names(Member(a, b).kind.members)

\* C17: follow_member_access_mut reports success only when the mutator was applied:
\* when the member a path addresses is missing it reports failure, the assignment
\* evaluates to empty and no binding changes.
C17_FailureWhenMemberMissing ==
    [][(Returning("MemberAssign") /\ Unaddressed(Top.e.left))
        => /\ ~follow_member_access_mut(nodes, current_scope,
                    Top.e.left.left, Top.e.left.right, ctl.val).ok
           /\ ctl'.mode = "ret" /\ ctl'.val = empty
           /\ nodes' = nodes
      ]_vars

\* the two path shapes: ident.ident and (ident.ident).ident
ShapeOne(path) == path.left.k = "Ident" /\ path.right.k = "Ident"

ShapeTwo(path) ==
    /\ path.left.k = "BinaryExpression" /\ path.left.op = "Dot"
    /\ path.left.left.k = "Ident" /\ path.left.right.k = "Ident"
    /\ path.right.k = "Ident"

\* C18: a member assignment resolves the shapes ident.ident and (ident.ident).ident
\* only.  For a.b with a bound to a record instance that has member b, and for a.b.c
\* with a.b a record instance that has member c, exactly that member of the value
\* held by a's node is replaced and the assignment evaluates to the value assigned.
\* For every other shape (a deeper path, a left side that is no identifier chain) the
\* assignment evaluates to empty and the scope graph is left as it is.
C18_TwoPathShapes ==
    [][Returning("MemberAssign") =>
        LET path == Top.e.left IN
        /\ (/\ PathOne(path)
            /\ HasMember(Resolve(path.left.id), path.right.id))
           => LET a == Resolve(path.left.id)
                  ib == At(Members(a), path.right.id)
              IN /\ nodes' = [nodes EXCEPT ![a].value.cv.kind.members[ib].val = ctl.val]
                 /\ ctl'.mode = "ret" /\ ctl'.val = ctl.val
        /\ (PathTwo(path) /\ ~Unaddressed(path))
           => LET a == Resolve(path.left.left.id)
                  ib == At(Members(a), path.left.right.id)
                  ic == At(Members(a)[ib].val.kind.members, path.right.id)
              IN /\ nodes' = [nodes EXCEPT
                        ![a].value.cv.kind.members[ib].val.kind.members[ic].val = ctl.val]
                 /\ ctl'.mode = "ret" /\ ctl'.val = ctl.val
        /\ (~ShapeOne(path) /\ ~ShapeTwo(path))
           => /\ nodes' = nodes
              /\ ctl'.mode = "ret" /\ ctl'.val = empty
        /\ current_scope' = current_scope
        /\ errors' = errors
      ]_vars

\* p.x.y.x = 7 evaluated to empty although p.x.y is a record instance with member x,
\* after p.x = r() and p.x.y = r() went through the two shapes
C18_Witness ==
    /\ ctl.mode = "ret" /\ ctl.val = empty
    /\ ctl.of.k = "BinaryExpression" /\ ctl.of.op = "Equals"
    /\ ctl.of.left.k = "BinaryExpression"
    /\ ~ShapeOne(ctl.of.left) /\ ~ShapeTwo(ctl.of.left)
    /\ ctl.of.left.left.k = "BinaryExpression" /\ ctl.of.left.left.op = "Dot"
    /\ HoldsRecord(Resolve("p"))
    /\ HasMember(Resolve("p"), "x")
    /\ Member(Resolve("p"), "x").kind.k = "RecordInstance"
    /\ Member(Resolve("p"), "x").kind.members[2] =
            [name |-> "y", val |-> record_instance(<<
                [name |-> "x", val |-> integer(0, 32, TRUE)],
                [name |-> "y", val |-> integer(0, 32, TRUE)]>>)]

\* the record w() returns: d is never bound, e carries the local m
WResult(e) ==
    record_instance(<<[name |-> "d", val |-> integer(0, 32, TRUE)],
                      [name |-> "e", val |-> e]>>)

ArgsBeforeFrame ==
    /\ Returning("Callee")
       => /\ current_scope' = current_scope /\ nodes' = nodes
          /\ IF Top.e.args = <<>>
             THEN ctl'.mode = "invoke" /\ ctl'.args = <<>>
             ELSE ctl' = [mode |-> "expr", e |-> Top.e.args[1]]
    /\ Returning("Args")
       => LET n == Len(Top.args) + 1 IN
          /\ current_scope' = current_scope /\ nodes' = nodes
          /\ IF n = Len(Top.e.args)
             THEN ctl'.mode = "invoke" /\ ctl'.args = Append(Top.args, ctl.val)
             ELSE ctl' = [mode |-> "expr", e |-> Top.e.args[n + 1]]
    /\ ctl'.mode = "invoke" => Len(ctl'.args) = Len(ctl'.e.args)
    /\ Len(current_scope') > Len(current_scope)
       => /\ ctl.mode = "invoke" /\ ctl.fn.ty.t = "Function"
          /\ Len(ctl.args) = Len(ctl.e.args)
          /\ current_scope' = Append(current_scope, ctl.fn.kind.rf)
    /\ (ctl.mode = "invoke" /\ ctl.fn.ty.t # "Function")
       => /\ ctl'.mode = "ret" /\ ctl'.val = empty
          /\ nodes' = nodes /\ current_scope' = current_scope

\* an identifier is about to be evaluated as an argument of a call of a function
ArgumentIdent ==
    /\ ctl.mode = "expr" /\ ctl.e.k = "Ident"
    /\ kont # <<>> /\ Top.k = "Args"
    /\ Top.fn.ty.t = "Function"
    /\ Resolve(ctl.e.id) # NoRf

\* the name resolves to a binding held by the captured node of the callee
InCalleeFrame ==
    /\ Binds(Top.fn.kind.rf, ctl.e.id)
    /\ nodes[Top.fn.kind.rf].children[ctl.e.id] = Resolve(ctl.e.id)

\* C20 as stated: the arguments of a call are evaluated, left to right, on the
\* caller's stack before the frame of the callee is pushed, also when the callee is
\* no function; an identifier used as an argument never resolves to a binding that
\* exists only in the callee's frame.
C20_ArgsNeverSeeCalleeFrame ==
    [][/\ ArgsBeforeFrame
       /\ ArgumentIdent => ~InCalleeFrame
      ]_vars

\* C20 as amended: the arguments of a call are evaluated, left to right, on the
\* caller's stack before the frame of the callee is pushed, also when the callee is
\* no function; an identifier used as an argument resolves to a binding of the
\* callee's captured node only when that node is already on the caller's stack.
C20_ArgsAgainstCallerStack ==
    [][/\ ArgsBeforeFrame
       /\ (ArgumentIdent /\ InCalleeFrame) => Top.fn.kind.rf \in Active
      ]_vars

\* inside rec's body the argument a of rec(a, a) resolves to the parameter a of the
\* running call, a child of the node rec(a, a) is about to push again
C20_Witness ==
    /\ ArgumentIdent /\ InCalleeFrame
    /\ ctl.e.id = "a"
    /\ current_scope = <<Root, Top.fn.kind.rf>>
    /\ ~Binds(Root, "a")

-----------------------------------------------------------------------------
(* Calls with mistyped, missing and surplus arguments *)

\* the positions a call type-checks: the shorter of the two lists
Checked(args, ptypes) == 1..Min(Len(args), Len(ptypes))

\* the first position whose argument has not the type of its parameter, 0 if none
FirstMismatch(args, ptypes) ==
    LET bad == {j \in Checked(args, ptypes) : args[j].ty # ptypes[j].val} IN
    IF bad = {} THEN 0 ELSE CHOOSE j \in bad : \A l \in bad : j <= l

\* the stack a call binds its parameters on
CalleeStack == Append(current_scope, ctl.fn.kind.rf)

\* a call of a function is about to push its frame and bind its arguments
Invoking == ctl.mode = "invoke" /\ ctl.fn.ty.t = "Function" /\ ctl.fn.kind.k = "Function"

\* after the step the parameter at position j holds the argument at position j
Rebound(j) ==
    LET sym == ResolveIn(nodes', current_scope', ctl.fn.ty.parameters[j].name) IN
    /\ sym # NoRf
    /\ nodes'[sym].value = SVConstValue(ctl.args[j])

\* the step leaves the parameter at position j as it was: unbound if it was unbound,
\* and the same node with the same content otherwise
Untouched(j) ==
    LET before == ResolveIn(nodes, CalleeStack, ctl.fn.ty.parameters[j].name) IN
    /\ ResolveIn(nodes', current_scope', ctl.fn.ty.parameters[j].name) = before
    /\ before # NoRf => nodes'[before] = nodes[before]

\* C21: when the first mismatching argument of a call is at position i, the call
\* returns empty with the parameters before i rebound to their arguments and the
\* parameters from i on in the state they had; nothing is rolled back.
C21_BoundUpToMismatch ==
    [][(Invoking /\ FirstMismatch(ctl.args, ctl.fn.ty.parameters) # 0)
       => LET i == FirstMismatch(ctl.args, ctl.fn.ty.parameters) IN
          /\ ctl' = [mode |-> "ret", val |-> empty, of |-> ctl.e]
          /\ \A j \in 1..(i - 1) : Rebound(j)
          /\ \A j \in i..Len(ctl.fn.ty.parameters) : Untouched(j)
      ]_vars

\* s(s().x + 1, 1) after s(s().x, s().x, 1) has returned empty: a went from 0 to 1,
\* b is still the 0 the earlier call bound
C21_Witness ==
    /\ module = <<SDecl, SSurplus, SBad>>
    /\ ctl = [mode |-> "ret", val |-> empty, of |-> SBad.expr]
    /\ Len(errors) = 1 /\ errors[1].range = <<11, 11>>
    /\ Resolve("a") # NoRf /\ nodes[Resolve("a")].value = SVConstValue(integer(1, 32, TRUE))
    /\ Resolve("b") # NoRf /\ nodes[Resolve("b")].value = SVConstValue(integer(0, 32, TRUE))

\* the parameters that were unbound on the callee's stack among the first m
NewlyBound(m) ==
    {j \in 1..m : ResolveIn(nodes, CalleeStack, ctl.fn.ty.parameters[j].name) = NoRf}

\* the step changes the graph at the first m parameters only: one node is added for
\* each of them that was unbound, and no other node changes its value
OnlyBinds(m) ==
    /\ Len(nodes') = Len(nodes) + Cardinality(NewlyBound(m))
    /\ \A k \in 1..Len(nodes) :
          nodes'[k].value # nodes[k].value
          => \E j \in 1..m : k = ResolveIn(nodes, CalleeStack, ctl.fn.ty.parameters[j].name)

\* C22: a call whose argument count differs from its parameter count is no error.
\* The positions both lists have are type-checked and bound, the surplus arguments
\* bind nothing, the missing parameters stay as they were (unbound or stale), no
\* diagnostic is recorded, the body is entered with the frame pushed; when the body
\* returns, pop_scope removes the innermost entry of the stack, which restores the
\* stack of the caller whenever the body left the frame innermost.
C22_ArityNotChecked ==
    [][/\ (/\ Invoking
           /\ Len(ctl.args) # Len(ctl.fn.ty.parameters)
           /\ FirstMismatch(ctl.args, ctl.fn.ty.parameters) = 0)
          => LET m == Min(Len(ctl.args), Len(ctl.fn.ty.parameters)) IN
             /\ errors' = errors
             /\ \A j \in 1..m : Rebound(j)
             /\ \A j \in (m + 1)..Len(ctl.fn.ty.parameters) : Untouched(j)
             /\ OnlyBinds(m)
             /\ current_scope' = CalleeStack
             /\ ctl' = [mode |-> "stmt", s |-> ctl.fn.kind.body]
       /\ (ctl.mode = "ret" /\ kont # <<>> /\ Top.k = "Body")
          => /\ errors' = errors
             /\ current_scope' = Front(current_scope)
             /\ current_scope = Append(Top.pre, Top.rf) => current_scope' = Top.pre
             /\ ctl'.mode = "ret" /\ ctl'.of = Top.e
             /\ ctl'.val.ty = TRecordInstance
      ]_vars

\* the node of the function s bound in the root
SNode == nodes[Root].children["s"]

\* n := 0, s declared, then s(s().x, s().x, 1): the two inner calls pass no argument,
\* the outer call passes three.  The body ran three times, a and b are bound to the
\* first two arguments, no diagnostic was recorded and only the root is on the stack.
C22_Witness ==
    /\ module = <<NDecl, SDecl, SSurplus>> /\ Done
    /\ errors = <<>>
    /\ current_scope = <<Root>>
    /\ value_of(nodes, nodes[Root].children["n"]) = cinteger(3)
    /\ DOMAIN nodes[SNode].children = {"a", "b", "c"}
    /\ value_of(nodes, nodes[SNode].children["a"]) = integer(0, 32, TRUE)
    /\ value_of(nodes, nodes[SNode].children["b"]) = integer(0, 32, TRUE)
    /\ vals[3] = record_instance(<<[name |-> "x", val |-> integer(0, 32, TRUE)]>>)

-----------------------------------------------------------------------------
(* The member read *)

\* the left side of the member read on top of kont has returned for the first time
LeftOfRead == ctl.mode = "ret" /\ kont # <<>> /\ Top.k = "Dot"

\* the value the left side returned is a record instance with the member read
MemberFound ==
    /\ ctl.val.kind.k = "RecordInstance"
    /\ Top.e.right.k = "Ident"
    /\ \E i \in 1..Len(ctl.val.kind.members) : ctl.val.kind.members[i].name = Top.e.right.id

\* the left side of a member read is entered for the second time: the frame that
\* waits for the left side of the generic path is put on kont for a member read
SecondEvaluation ==
    /\ kont' # <<>> /\ kont' # kont /\ Len(kont') >= Len(kont)
    /\ Last(kont').k = "Left" /\ Last(kont').e.op = "Dot"

\* what one step of a member read does
MemberReadStep ==
    /\ LeftOfRead
       => /\ nodes' = nodes /\ current_scope' = current_scope /\ errors' = errors
          /\ IF MemberFound
             THEN /\ ctl'.mode = "ret" /\ ctl'.of = Top.e
                  /\ ctl'.val = ctl.val.kind.members[At(ctl.val.kind.members,
                                                        Top.e.right.id)].val
                  /\ kont' = SubSeq(kont, 1, Len(kont) - 1)
             ELSE /\ ctl' = [mode |-> "expr", e |-> Top.e.left]
                  /\ SecondEvaluation /\ Last(kont').e = Top.e
    /\ SecondEvaluation => (LeftOfRead /\ ~MemberFound)
    /\ (ctl.mode = "ret" /\ kont # <<>> /\ Top.k = "Right" /\ Top.e.op = "Dot")
       => ctl' = [mode |-> "ret", val |-> empty, of |-> Top.e]

\* the TypeMismatch s(1) records
SBadError == [kind |-> "TypeMismatch", found |-> TCoercibleInteger,
              expected |-> TInteger(32, TRUE), range |-> <<3, 3>>]

\* the effects of the calls inside the left side, counted by the program itself: n
\* counts the runs of the body of s, errors and the stack count the stopped calls
MemberReadEffects ==
    /\ (module = <<NDecl, SDecl, SNone>> /\ Done)
       => /\ value_of(nodes, nodes[Root].children["n"]) = cinteger(1)
          /\ vals[3] = integer(0, 32, TRUE)
    /\ (module = <<NDecl, SDecl, SMiss>> /\ Done)
       => /\ value_of(nodes, nodes[Root].children["n"]) = cinteger(2)
          /\ vals[3] = empty
    /\ (module = <<SDecl, SBadDot>> /\ Done)
       => /\ errors = <<SBadError, SBadError>>
          /\ current_scope = <<Root, SNode, SNode>>
          /\ vals[2] = empty

\* C23: in a member read e.b, when e does not evaluate to a record instance with a
\* member b, e is evaluated a second time and the read then returns empty, so the
\* effects of a call inside e (bindings, pushed frames, TypeMismatch entries) happen
\* twice; when the member is found it is returned after the one evaluation of e.
C23_LeftEvaluatedTwice == [][MemberReadStep]_vars /\ []MemberReadEffects

\* n := 0, s declared, then s().z: the record s returns has no member z, the body of
\* s ran twice and the read returned empty
C23_Witness ==
    /\ module = <<NDecl, SDecl, SMiss>> /\ Done
    /\ value_of(nodes, nodes[Root].children["n"]) = cinteger(2)
    /\ vals[3] = empty
    /\ errors = <<>>

====
